---- MODULE Spec2Model ----
(***************************************************************************)
(* A model of the GPU forward pass of src/src/infer.cu: the host drivers   *)
(* forward / forwardcoop / forward_cuda, the stream and event ordering of  *)
(* the kernels they launch, the grid barriers of the cooperative kernel,   *)
(* and the rolling KV cache with its attention sinks.                      *)
(*                                                                         *)
(* Arithmetic is over the residues modulo a prime instead of floats: an    *)
(* activation vector is one residue, and the kernels add and multiply      *)
(* residues where the code adds and multiplies floats.  The KV cache is    *)
(* kept element by element, in the flat layout of the code, and every key  *)
(* element carries its rotary angle in units of its own rotary frequency.  *)
(* Vector lengths are small: the warp alignment the drivers assert (lines  *)
(* 648-649) is what makes every launch grid cover its index range exactly, *)
(* and the model takes the index ranges themselves.                        *)
(***************************************************************************)
EXTENDS Integers, Sequences, FiniteSets, TLC

VARIABLES
    config,     \* struct Config: arch (the dimensions are the definitions below)
    dbits,      \* Weights.dbits
    kvbits,     \* RunState.kvbits
    coop,       \* static int coop, set by prepare_cuda from CALM_COOP
    coopsms,    \* static int coopsms: the blocks of the cooperative kernel, one per SM
    s,          \* struct RunState on the device, plus the static rmsscale
    stream,     \* static cudaStream_t stream: the operations enqueued, in order
    parstream,  \* static cudaStream_t parstream
    parsync,    \* static cudaEvent_t parsync[2]: generation recorded / completed
    bpc,        \* the cooperative kernel: each block's next phase
    host,       \* the host thread: where it is, the call it made, what it got, and whether
                \* operations were still enqueued when the call returned
    ref,        \* RunState of a run of the same calls, each made with flags = 0
    caller,     \* how the parent program calls forward
    device,     \* the device: which of its operations fail, how it settles a data race
    unit        \* one device function taken alone: its arguments and what it wrote

vars == <<config, dbits, kvbits, coop, coopsms, s, stream, parstream, parsync, bpc, host, ref,
          caller, device, unit>>

----------------------------------------------------------------------------
(* model.h *)

KV_SINKS == 2

FF_UPDATE_KV_ONLY == 1

Archs == {"LlamaLike", "Qwen", "Phi", "Mixtral", "Olmo", "Gemma"}

(* struct Config: the dimensions of the model that was loaded *)
n_layers == 2

\* vector loads of four elements (attn_load4, float4) need seq_len % 4 = 0
SeqQuads == 1

seq_len == 4 * SeqQuads

HeadPairs == 2

head_dim == 2 * HeadPairs

RotaryPairs == 1

rotary_dim == 2 * RotaryPairs

n_kv_heads == 1

KvMul == 2

n_heads == n_kv_heads * KvMul

vocab_size == 2

(* the convenience variables of forward *)
q_dim == head_dim * n_heads

kv_dim == head_dim * n_kv_heads

kv_mul == n_heads \div n_kv_heads

(* the device: devprop.multiProcessorCount *)
MaxSMs == 2

(* the parent program *)
MaxCalls == 6

MaxCallsAny == 3

MaxCallsArgs == 2

MaxPos == seq_len

QueueCap == 1

----------------------------------------------------------------------------
(* C arithmetic *)

\* the C remainder truncates toward zero
CRem(a, b) == IF a >= 0 THEN a % b ELSE 0 - ((0 - a) % b)

BitAnd1(flags) == flags % 2

----------------------------------------------------------------------------
(* Values.  Every float vector is one residue modulo P and every weight row  *)
(* a fixed nonzero residue: sums and products keep their algebra, so the     *)
(* same dataflow gives the same residue.  Memory that was never written, and *)
(* whatever is computed from it, is Poison.                                  *)

P == 10007

Poison == 0 - 1

PAdd(a, b) == IF a < 0 \/ b < 0 THEN Poison ELSE (a + b) % P

PMul(a, b) == IF a < 0 \/ b < 0 THEN Poison ELSE (a * b) % P

RECURSIVE PSum(_, _)
\* f[0] + ... + f[n - 1]
PSum(f, n) == IF n = 0 THEN 0 ELSE PAdd(PSum(f, n - 1), f[n - 1])

RECURSIVE PPow(_, _)
PPow(b, e) ==
    IF e = 0 THEN 1
    ELSE LET h == PPow(b, e \div 2)
         IN IF e % 2 = 0 THEN (h * h) % P ELSE (((h * h) % P) * b) % P

\* a / b: a times the inverse of b
PDiv(a, b) == IF a < 0 \/ b < 0 THEN Poison ELSE (a * PPow(b, P - 2)) % P

\* struct Weights: the tensors, told apart by a number
WeightId(name) ==
    CASE name = "token_embedding_table" -> 1
      [] name = "att"     -> 2
      [] name = "ffn"     -> 3
      [] name = "final"   -> 4
      [] name = "ln"      -> 5
      [] name = "wq"      -> 6
      [] name = "wk"      -> 7
      [] name = "wv"      -> 8
      [] name = "wo"      -> 9
      [] name = "w1"      -> 10
      [] name = "w2"      -> 11
      [] name = "w3"      -> 12
      [] name = "b1"      -> 13
      [] name = "b2"      -> 14
      [] name = "moegate" -> 15
      [] name = "wcls"    -> 16
      [] name = "bcls"    -> 17

\* row `row` of tensor `name` of layer l
Wt(name, l, row) == 1 + ((WeightId(name) * 211 + l * 37 + row * 7) % (P - 1))

\* a cache element: whether it was written, the pos and the layer of the launch that wrote
\* it, its index in the kv vector, its rotary angle in units of its frequency, its value
\* before rotation
UninitEl == [w |-> FALSE, src |-> 0, l |-> 0, e |-> 0, ang |-> 0, v |-> Poison]

GarbageEl == [w |-> TRUE, src |-> 0 - 2, l |-> 0, e |-> 0, ang |-> 0, v |-> Poison]

CacheSize == n_layers * seq_len * kv_dim

CacheIdx == 0 .. (CacheSize - 1)

Heads == 0 .. (n_heads - 1)

Layers == 0 .. (n_layers - 1)

AttIdx == 0 .. (n_heads * seq_len - 1)

\* the first element of each pair of the kv vector
EvenJ == {j \in 0 .. (kv_dim - 1) : j % 2 = 0}

\* freq = j_head >= rotary_dim ? 0.f : exp2f(...): 0 when the pair is not rotated
FreqU(j_head) == IF j_head >= rotary_dim THEN 0 ELSE 1

----------------------------------------------------------------------------
(* The kernels of the multi-kernel driver *)

silu(v) == PAdd(PMul(v, v), v)

gelu(v) == PAdd(PMul(PMul(v, v), v), 1)

\* rsqrtf(ss / size + eps)
RmsScale(x) == PAdd(PMul(x, x), 3)

kernel_embed(st, op) == [st EXCEPT !.x = Wt("token_embedding_table", 0, op.c.token)]

kernel_rmsnorm(st, op) ==
    LET v == PMul(PMul(st.x, Wt(op.w, op.l, 0)), RmsScale(st.x))
    IN IF op.o = "x" THEN [st EXCEPT !.x = v] ELSE [st EXCEPT !.xb = v]

LayerNorm(x, w) == PMul(PMul(PAdd(x, 1), PAdd(PMul(x, x), 5)), w)

\* with acc the kernel first adds acc into x; lnin is history, not a buffer: the vector
\* the last layernorm into xb normalized
kernel_layernorm(st, op) ==
    LET xin == IF op.acc THEN PAdd(st.x, st.xa) ELSE st.x
        v   == LayerNorm(xin, Wt(op.w, op.l, 0))
    IN IF op.o = "x" THEN [st EXCEPT !.x = v]
       ELSE [st EXCEPT !.x = xin, !.xb = v, !.lnin = xin]

\* the key element j + c of the call at pos, rotated by pos * freq (lines 257-295)
KeyEl(l, pos, j, c, xin) ==
    LET j_head == (q_dim + j) % head_dim
    IN [w |-> TRUE, src |-> pos, l |-> l, e |-> j + c, ang |-> pos * FreqU(j_head),
        v |-> PMul(xin, Wt("wk", l, j + c))]

ValEl(l, pos, j, c, xin) ==
    [w |-> TRUE, src |-> pos, l |-> l, e |-> j + c, ang |-> 0,
     v |-> PMul(xin, Wt("wv", l, j + c))]

\* kb[kv_pos * 2 + c + seq_len * j], kb = key_cache + loff
KeyWriteIdx(l, kvp, j, c) == l * seq_len * kv_dim + kvp * 2 + c + seq_len * j

\* vb[kv_pos + seq_len * (j + c)]
ValWriteIdx(l, kvp, j, c) == l * seq_len * kv_dim + kvp + seq_len * (j + c)

QkvKeys(kc, l, pos, kvp, xin) ==
    [o \in CacheIdx |->
        IF \E j \in EvenJ, c \in {0, 1} : KeyWriteIdx(l, kvp, j, c) = o
        THEN LET jc == CHOOSE jc \in EvenJ \X {0, 1} : KeyWriteIdx(l, kvp, jc[1], jc[2]) = o
             IN KeyEl(l, pos, jc[1], jc[2], xin)
        ELSE kc[o]]

QkvVals(vc, l, pos, kvp, xin) ==
    [o \in CacheIdx |->
        IF \E j \in EvenJ, c \in {0, 1} : ValWriteIdx(l, kvp, j, c) = o
        THEN LET jc == CHOOSE jc \in EvenJ \X {0, 1} : ValWriteIdx(l, kvp, jc[1], jc[2]) = o
             IN ValEl(l, pos, jc[1], jc[2], xin)
        ELSE vc[o]]

\* a write outside the allocation
QkvOob(l, kvp) ==
    \E j \in EvenJ, c \in {0, 1} :
        \/ KeyWriteIdx(l, kvp, j, c) \notin CacheIdx
        \/ ValWriteIdx(l, kvp, j, c) \notin CacheIdx

\* q, and the key and value of this position into the cache
RopeQkv(st, l, pos, kvp, xin) ==
    [st EXCEPT !.q = PAdd(PMul(xin, Wt("wq", l, 0)), 89 * (pos % P)),
               !.key_cache = QkvKeys(@, l, pos, kvp, xin),
               !.value_cache = QkvVals(@, l, pos, kvp, xin),
               !.oob = @ \/ QkvOob(l, kvp)]

kernel_matmul_rope_qkv(st, op) == RopeQkv(st, op.l, op.c.pos, op.c.kv_pos, st.xb)

\* attn_score2: element e of the key at position t is kht[(e - e % 2) * seq_len + t * 2 + e % 2]
KeyRead(kc, l, kvh, t, e) ==
    LET o == l * seq_len * kv_dim + kvh * head_dim * seq_len
             + (e - (e % 2)) * seq_len + t * 2 + (e % 2)
    IN IF o \in CacheIdx THEN kc[o] ELSE GarbageEl

\* the value of a key element as it is stored: rotated by its angle
KeyNum(el) == IF el.v < 0 THEN Poison ELSE (el.v + 97 * (el.ang % P)) % P

KeyDot(kc, l, kvh, t) ==
    PSum([e \in 0 .. (head_dim - 1) |-> PMul(e + 1, KeyNum(KeyRead(kc, l, kvh, t, e)))], head_dim)

\* attn_warpdot: element i of the value at position t is val[i * seq_len + t]
ValRead(vc, l, kvh, t, i) ==
    LET o == l * seq_len * kv_dim + kvh * head_dim * seq_len + i * seq_len + t
    IN IF o \in CacheIdx THEN vc[o] ELSE GarbageEl

ValDot(vc, l, kvh, t) ==
    PSum([i \in 0 .. (head_dim - 1) |-> PMul(i + 1, ValRead(vc, l, kvh, t, i).v)], head_dim)

\* the t of the threads that pass `if (t < kv_len)`: each writes att[t] and att[t + 1]
ScoreT(kvl) == {t \in 0 .. (seq_len + 1) : t % 2 = 0 /\ t < kvl}

AttnScore(st, l, kvl) ==
    [st EXCEPT
       !.att = [a \in AttIdx |->
                  LET h == a \div seq_len
                      u == a % seq_len
                      t == u - (u % 2)
                  IN IF t \in ScoreT(kvl)
                     THEN PMul(PMul(st.q, h + 1), KeyDot(st.key_cache, l, h \div kv_mul, u))
                     ELSE @[a]],
       !.oob = @ \/ \E h \in Heads, t \in ScoreT(kvl) : h * seq_len + t + 1 \notin AttIdx]

kernel_attn_score(st, op) == AttnScore(st, op.l, op.c.kv_len)

\* expf(x - max_val): the maximum cancels in the division of attn_warpdot
Expf(a) == PAdd(PMul(a, a), 1)

\* the softmax of att[0 .. kv_len) for the heads hs, not yet divided by its sum
Softmax(st, hs, kvl) ==
    [st EXCEPT
       !.att = [a \in AttIdx |->
                  IF (a \div seq_len) \in hs /\ (a % seq_len) < kvl
                  THEN Expf(@[a])
                  ELSE @[a]]]

kernel_attn_softmax(st, op) == Softmax(st, Heads, op.c.kv_len)

\* attn_warpdot: the sum of att[t] * val[t] over [0 .. kv_len) divided by the sum of att[t]
WarpDot(st, l, h, kvl) ==
    PDiv(PSum([t \in 0 .. (kvl - 1) |->
                 PMul(st.att[h * seq_len + t], ValDot(st.value_cache, l, h \div kv_mul, t))], kvl),
         PSum([t \in 0 .. (kvl - 1) |-> st.att[h * seq_len + t]], kvl))

\* the weighted average of the values at [0 .. kv_len) into q
AttnMix(st, l, kvl) ==
    [st EXCEPT !.q = PSum([h \in Heads |-> PMul(h + 1, WarpDot(st, l, h, kvl))], n_heads)]

kernel_attn_mix(st, op) == AttnMix(st, op.l, op.c.kv_len)

kernel_matmul_attn(st, op) == [st EXCEPT !.x = PAdd(@, PMul(st.q, Wt("wo", op.l, 0)))]

\* w1 and w3 of expert e, with silu or gelu
Ffn13(xin, l, e, act) ==
    LET v1 == PMul(xin, Wt("w1", l, e))
        v3 == PMul(xin, Wt("w3", l, e))
    IN PMul(IF act = "gelu" THEN gelu(v1) ELSE silu(v1), v3)

kernel_matmul_ffn13(st, op) == [st EXCEPT !.hb = Ffn13(st.xb, op.l, 0, op.w)]

kernel_matmul_ffn1_gelu(st, op) ==
    [st EXCEPT !.hb = gelu(PAdd(PMul(st.xb, Wt("w1", op.l, 0)), Wt("b1", op.l, 0)))]

\* xout = acc + w2 hb: acc is b2 and xout is xa for Phi, acc and xout are x otherwise
kernel_matmul_ffn2(st, op) ==
    IF op.o = "xa" THEN [st EXCEPT !.xa = PAdd(Wt("b2", op.l, 0), PMul(st.hb, Wt("w2", op.l, 0)))]
    ELSE [st EXCEPT !.x = PAdd(@, PMul(st.hb, Wt("w2", op.l, 0)))]

NExperts == 2

\* the expert chosen and its weight, from the gate's product
MoeGate(g) == [wt |-> PAdd(PMul(g, g), 1), e |-> IF g < 0 THEN 0 ELSE g % NExperts]

kernel_moe_gate(st, op) == [st EXCEPT !.exp = MoeGate(PMul(st.xb, Wt("moegate", op.l, 0)))]

kernel_matmul_moe_ffn13_silu(st, op) == [st EXCEPT !.he = Ffn13(st.xb, op.l, st.exp.e, "silu")]

kernel_matmul_moe_ffn2(st, op) ==
    [st EXCEPT !.x = PAdd(@, PMul(PMul(st.he, Wt("w2", op.l, st.exp.e)), st.exp.wt))]

\* bcls is not NULL only for Phi
Cls(x) == PAdd(PMul(x, Wt("wcls", 0, 0)), IF config.arch = "Phi" THEN Wt("bcls", 0, 0) ELSE 0)

kernel_matmul_cls(st, op) == [st EXCEPT !.logits = Cls(st.x)]

\* one pair of a sink key turned by one position; a pair that is not one key pair as
\* kernel_matmul_rope_qkv wrote it turns into garbage
RotEl(a, b, j_head, c) ==
    LET el == IF c = 0 THEN a ELSE b
    IN IF ~a.w /\ ~b.w THEN el
       ELSE IF a.w /\ b.w /\ a.src = b.src /\ a.l = b.l /\ a.ang = b.ang
               /\ a.e % 2 = 0 /\ b.e = a.e + 1
            THEN [el EXCEPT !.ang = @ + FreqU(j_head)]
            ELSE GarbageEl

\* variant: the pair index of the value layout
RotateIdx_vlayout(l, i) == l * seq_len * kv_dim + (i \div kv_dim) + seq_len * (i % kv_dim)

\* thread i of layer l: int t = i / kv_dim, k = i % kv_dim, o = t * 2 + seq_len * k
RotateIdx(l, i) == l * seq_len * kv_dim + (i \div kv_dim) * 2 + seq_len * (i % kv_dim)

\* variant: only the key at physical position 0 is turned
RotateI_first(kvs) == {i \in 0 .. (kv_dim - 1) : i % 2 = 0 /\ kvs > 0}

RotateI(kvs) == {i \in 0 .. (kvs * kv_dim - 1) : i % 2 = 0}

kernel_rotate_sink(st, op) ==
    LET targets == {li \in Layers \X RotateI(op.c.kv_sink) : RotateIdx(li[1], li[2]) + 1 \in CacheIdx}
    IN [st EXCEPT
          !.key_cache =
              [o \in CacheIdx |->
                 IF \E li \in targets : o \in {RotateIdx(li[1], li[2]), RotateIdx(li[1], li[2]) + 1}
                 THEN LET li == CHOOSE li \in targets :
                                   o \in {RotateIdx(li[1], li[2]), RotateIdx(li[1], li[2]) + 1}
                          b0 == RotateIdx(li[1], li[2])
                      IN RotEl(@[b0], @[b0 + 1], li[2] % head_dim, o - b0)
                 ELSE @[o]],
          !.oob = @ \/ \E li \in Layers \X RotateI(op.c.kv_sink) :
                          RotateIdx(li[1], li[2]) + 1 \notin CacheIdx]

----------------------------------------------------------------------------
(* The cooperative kernel *)

Blocks == 0 .. (coopsms - 1)

PhasesPerLayer == 9

NPhases == n_layers * PhasesPerLayer

\* the code between two syncgrid() of one layer
PhaseNames == <<"norm", "qkv", "score", "softmax", "mix", "out", "ffnnorm", "ffn13", "ffn2">>

PhaseLayer(p) == p \div PhasesPerLayer

PhaseName(p) == PhaseNames[(p % PhasesPerLayer) + 1]

\* the device rmsnorm: xb gets x * weight, not yet scaled, and the scale goes to rmsscale
CoopNorm(st, w, l) ==
    [st EXCEPT !.xb = PMul(st.x, Wt(w, l, 0)), !.rmsscale = RmsScale(st.x)]

\* matmul_warppar(xb, ...) * rmsscale
Normed(st) == PMul(st.xb, st.rmsscale)

\* the rmsscale a gate warp reads on line 1020: thread 0 stores the new scale on line 1014
\* and no barrier separates the store from the reads of the other warps, so a warp gets
\* the scale of the pre-attention norm or the new one; which one is up to the device
GateScale(st, n) == IF device.stale THEN st.rmsscale ELSE n.rmsscale

\* variant: the gate warps wait for the store
GateScale_synced(st, n) == n.rmsscale

CoopPhase(st, op, p) ==
    LET l   == PhaseLayer(p)
        ph  == PhaseName(p)
        moe == config.arch = "Mixtral"
    IN CASE ph = "norm"    -> CoopNorm(st, "att", l)
         [] ph = "qkv"     -> RopeQkv(st, l, op.c.pos, op.c.kv_pos, Normed(st))
         [] ph = "score"   -> AttnScore(st, l, op.c.kv_len)
         [] ph = "softmax" -> Softmax(st, {h \in Heads : h \in Blocks}, op.c.kv_len)
         [] ph = "mix"     -> AttnMix(st, l, op.c.kv_len)
         [] ph = "out"     -> [st EXCEPT !.x = PAdd(@, PMul(st.q, Wt("wo", l, 0)))]
         [] ph = "ffnnorm" ->
               LET n == CoopNorm(st, "ffn", l)
               IN IF moe
                  THEN [n EXCEPT !.exp = MoeGate(PMul(PMul(n.xb, GateScale(st, n)),
                                                      Wt("moegate", l, 0)))]
                  ELSE n
         [] ph = "ffn13"   ->
               IF moe THEN [st EXCEPT !.he = Ffn13(Normed(st), l, st.exp.e, op.w)]
               ELSE [st EXCEPT !.hb = Ffn13(Normed(st), l, st.exp.e, op.w)]
         [] ph = "ffn2"    ->
               LET h == IF moe THEN st.he ELSE st.hb
               IN [st EXCEPT !.x = PAdd(@, PMul(PMul(h, Wt("w2", l, st.exp.e)), st.exp.wt))]

RECURSIVE CoopRun(_, _, _)
\* the phases p, p + 1, ... in order: what the barriers make of the kernel
CoopRun(st, op, p) == IF p >= NPhases THEN st ELSE CoopRun(CoopPhase(st, op, p), op, p + 1)

\* kernel_output: the final rmsnorm into shared memory, then the classifier without bias
kernel_output(st, op) ==
    [st EXCEPT !.logits = PMul(PMul(PMul(st.x, Wt("final", n_layers, 0)), Wt("wcls", 0, 0)),
                               RmsScale(st.x))]

\* a kernel, run to completion
Kernel(st, op) ==
    CASE op.k = "embed"          -> kernel_embed(st, op)
      [] op.k = "rotate_sink"    -> kernel_rotate_sink(st, op)
      [] op.k = "rmsnorm"        -> kernel_rmsnorm(st, op)
      [] op.k = "layernorm"      -> kernel_layernorm(st, op)
      [] op.k = "rope_qkv"       -> kernel_matmul_rope_qkv(st, op)
      [] op.k = "attn_score"     -> kernel_attn_score(st, op)
      [] op.k = "attn_softmax"   -> kernel_attn_softmax(st, op)
      [] op.k = "attn_mix"       -> kernel_attn_mix(st, op)
      [] op.k = "matmul_attn"    -> kernel_matmul_attn(st, op)
      [] op.k = "ffn13"          -> kernel_matmul_ffn13(st, op)
      [] op.k = "ffn1_gelu"      -> kernel_matmul_ffn1_gelu(st, op)
      [] op.k = "ffn2"           -> kernel_matmul_ffn2(st, op)
      [] op.k = "moe_gate"       -> kernel_moe_gate(st, op)
      [] op.k = "moe_ffn13_silu" -> kernel_matmul_moe_ffn13_silu(st, op)
      [] op.k = "moe_ffn2"       -> kernel_matmul_moe_ffn2(st, op)
      [] op.k = "matmul_cls"     -> kernel_matmul_cls(st, op)
      [] op.k = "output"         -> kernel_output(st, op)
      [] op.k = "fused_coop"     -> CoopRun(st, op, 0)
      [] OTHER                   -> st

----------------------------------------------------------------------------
(* The host drivers *)

\* variant: no sinks are kept
kv_sink_nosinks(pos) == 0

\* variant: the position wraps over the whole cache
kv_pos_wrapall(pos) == CRem(pos, seq_len)

\* following "attention sinks" the first few tokens stay in the cache (lines 643-645)
kv_sink(pos) == IF pos >= seq_len THEN KV_SINKS ELSE 0

kv_pos(pos) == kv_sink(pos) + CRem(pos - kv_sink(pos), seq_len - kv_sink(pos))

\* variant: the last slot is left out once the cache is full
kv_len_short(pos) == IF pos >= seq_len THEN seq_len - 1 ELSE pos + 1

kv_len(pos) == IF pos >= seq_len THEN seq_len ELSE pos + 1

\* the arguments of one call, with the convenience variables computed from them
Call(token, pos, flags, n) ==
    [token |-> token, pos |-> pos, flags |-> flags, n |-> n,
     kv_sink |-> kv_sink(pos), kv_pos |-> kv_pos(pos), kv_len |-> kv_len(pos)]

NoCall == Call(0, 0, 0, 0 - 1)

\* a launch <<<...>>> on a stream
Op(c, st, k, l, o, w, acc) ==
    [k |-> k, st |-> st, l |-> l, o |-> o, w |-> w, acc |-> acc, ev |-> 0, gen |-> 0, id |-> 0, c |-> c]

\* cudaEventRecord(parsync[ev], st) and cudaStreamWaitEvent(st, parsync[ev], 0); the wait
\* is for the record made last before it, which is the record of the same layer
EvGen(c, l) == c.n * n_layers + l + 1

EvOp(c, st, k, l, ev) ==
    [k |-> k, st |-> st, l |-> l, o |-> "", w |-> "", acc |-> FALSE, ev |-> ev,
     gen |-> EvGen(c, l), id |-> 0, c |-> c]

\* variant: Phi passes xa as acc in every layer
AttNormOps_acc(c, l) ==
    IF config.arch = "Phi"
    THEN << Op(c, "main", "layernorm", l, "xb", "ln", TRUE),
            EvOp(c, "main", "record", l, 0),
            EvOp(c, "par", "wait", l, 0) >>
    ELSE IF config.arch = "Olmo"
    THEN << Op(c, "main", "layernorm", l, "xb", "att", FALSE) >>
    ELSE << Op(c, "main", "rmsnorm", l, "xb", "att", FALSE) >>

\* lines 677-692: the norm before attention
AttNormOps(c, l) ==
    IF config.arch = "Phi"
    THEN << Op(c, "main", "layernorm", l, "xb", "ln", l # 0),
            EvOp(c, "main", "record", l, 0),
            EvOp(c, "par", "wait", l, 0) >>
    ELSE IF config.arch = "Olmo"
    THEN << Op(c, "main", "layernorm", l, "xb", "att", FALSE) >>
    ELSE << Op(c, "main", "rmsnorm", l, "xb", "att", FALSE) >>

\* lines 694-697
QkvOps(c, l) == << Op(c, "main", "rope_qkv", l, "", "", FALSE) >>

\* variant: the break is taken in every layer
KvOnlyBreak_anylayer(c, l) == BitAnd1(c.flags) # 0

\* line 700: only update kv cache and don't output logits
KvOnlyBreak(c, l) == l = n_layers - 1 /\ BitAnd1(c.flags) # 0

\* a launch with an empty grid fails and launches nothing (line 707: kv_len <= 0)
ScoreGrid(c) == (c.kv_len + 127) \div 128

\* lines 704-719
AttnOps(c, l) ==
    (IF ScoreGrid(c) > 0 THEN << Op(c, "main", "attn_score", l, "", "", FALSE) >> ELSE << >>)
    \o << Op(c, "main", "attn_softmax", l, "", "", FALSE),
          Op(c, "main", "attn_mix", l, "", "", FALSE),
          Op(c, "main", "matmul_attn", l, "", "", FALSE) >>

\* variant: the main stream does not wait for the MLP
PhiJoinOps_nowait(c, l) == << EvOp(c, "par", "record", l, 1) >>

\* lines 747-751: the main stream waits for the MLP
PhiJoinOps(c, l) == << EvOp(c, "par", "record", l, 1), EvOp(c, "main", "wait", l, 1) >>

\* lines 721-772
FfnOps(c, l) ==
    IF config.arch = "Mixtral"
    THEN << Op(c, "main", "rmsnorm", l, "xb", "ffn", FALSE),
            Op(c, "main", "moe_gate", l, "", "", FALSE),
            Op(c, "main", "moe_ffn13_silu", l, "", "", FALSE),
            Op(c, "main", "moe_ffn2", l, "", "", FALSE) >>
    ELSE IF config.arch = "Phi"
    THEN << Op(c, "par", "ffn1_gelu", l, "", "", FALSE),
            Op(c, "par", "ffn2", l, "xa", "", FALSE) >> \o PhiJoinOps(c, l)
    ELSE << IF config.arch = "Olmo"
            THEN Op(c, "main", "layernorm", l, "xb", "ffn", FALSE)
            ELSE Op(c, "main", "rmsnorm", l, "xb", "ffn", FALSE),
            Op(c, "main", "ffn13", l, "", IF config.arch = "Gemma" THEN "gelu" ELSE "silu", FALSE),
            Op(c, "main", "ffn2", l, "x", "", FALSE) >>

RECURSIVE LayerOps(_, _)
\* lines 674-773: forward all the layers
LayerOps(c, l) ==
    IF l >= n_layers THEN << >>
    ELSE AttNormOps(c, l) \o QkvOps(c, l) \o
         (IF KvOnlyBreak(c, l) THEN << >>
          ELSE AttnOps(c, l) \o FfnOps(c, l) \o LayerOps(c, l + 1))

\* lines 665-671
EmbedOps(c) ==
    << Op(c, "main", "embed", 0, "", "", FALSE) >> \o
    (IF c.kv_sink > 0 THEN << Op(c, "main", "rotate_sink", 0, "", "", FALSE) >> ELSE << >>)

\* lines 780-793
FinalOps(c) ==
    << IF config.arch = "Phi" THEN Op(c, "main", "layernorm", n_layers, "x", "final", TRUE)
       ELSE IF config.arch = "Olmo" THEN Op(c, "main", "layernorm", n_layers, "x", "final", FALSE)
       ELSE Op(c, "main", "rmsnorm", n_layers, "x", "final", FALSE),
       Op(c, "main", "matmul_cls", 0, "", "", FALSE) >>

\* everything forward enqueues, in program order
forward_ops(c) ==
    EmbedOps(c) \o LayerOps(c, 0) \o (IF BitAnd1(c.flags) # 0 THEN << >> ELSE FinalOps(c))

\* everything forwardcoop enqueues, in program order (lines 1111-1173)
forwardcoop_ops(c) ==
    EmbedOps(c) \o
    << Op(c, "main", "fused_coop", 0, "", IF config.arch = "Gemma" THEN "gelu" ELSE "silu", FALSE) >> \o
    (IF BitAnd1(c.flags) # 0 THEN << >> ELSE << Op(c, "main", "output", 0, "", "", FALSE) >>)

\* line 1091
CoopArchs == {"LlamaLike", "Mixtral", "Gemma"}

\* variant: 8-bit weights run the fp16 instantiation
Instantiation_swapped(db, kvb) ==
    CASE db = 4  /\ kvb = 8  -> <<"uint32_t", "__nv_fp8_e5m2">>
      [] db = 4  /\ kvb = 16 -> <<"uint32_t", "__half">>
      [] db = 8  /\ kvb = 8  -> <<"__half", "__nv_fp8_e5m2">>
      [] db = 8  /\ kvb = 16 -> <<"__half", "__half">>
      [] db = 16 /\ kvb = 8  -> <<"__half", "__nv_fp8_e5m2">>
      [] db = 16 /\ kvb = 16 -> <<"__half", "__half">>
      [] OTHER               -> <<"", "">>

\* the CASE lines of forward_cuda: the instantiation <<T, KVT>> of the stored tags
Instantiation(db, kvb) ==
    CASE db = 4  /\ kvb = 8  -> <<"uint32_t", "__nv_fp8_e5m2">>
      [] db = 4  /\ kvb = 16 -> <<"uint32_t", "__half">>
      [] db = 8  /\ kvb = 8  -> <<"__nv_fp8_e5m2", "__nv_fp8_e5m2">>
      [] db = 8  /\ kvb = 16 -> <<"__nv_fp8_e5m2", "__half">>
      [] db = 16 /\ kvb = 8  -> <<"__half", "__nv_fp8_e5m2">>
      [] db = 16 /\ kvb = 16 -> <<"__half", "__half">>
      [] OTHER               -> <<"", "">>

\* variant: coop is ignored
Driver_nocoop == "forward"

\* coop ? &forwardcoop<T, KVT> : &forward<T, KVT>
Driver == IF coop # 0 THEN "forwardcoop" ELSE "forward"

----------------------------------------------------------------------------
(* The buffers each kernel reads and writes, from its pointer arguments *)

B(name) == <<name, 0 - 1>>

KC(l) == <<"key_cache", l>>

VC(l) == <<"value_cache", l>>

Reads(op) ==
    CASE op.k = "rotate_sink"    -> {KC(l) : l \in Layers}
      [] op.k = "rmsnorm"        -> {B("x")}
      [] op.k = "layernorm"      -> {B("x")} \cup (IF op.acc THEN {B("xa")} ELSE {})
      [] op.k = "rope_qkv"       -> {B("xb")}
      [] op.k = "attn_score"     -> {B("q"), KC(op.l)}
      [] op.k = "attn_softmax"   -> {B("att")}
      [] op.k = "attn_mix"       -> {B("att"), VC(op.l)}
      [] op.k = "matmul_attn"    -> {B("q"), B("x")}
      [] op.k = "ffn13"          -> {B("xb")}
      [] op.k = "ffn1_gelu"      -> {B("xb")}
      [] op.k = "ffn2"           -> {B("hb")} \cup (IF op.o = "x" THEN {B("x")} ELSE {})
      [] op.k = "moe_gate"       -> {B("xb")}
      [] op.k = "moe_ffn13_silu" -> {B("xb"), B("exp")}
      [] op.k = "moe_ffn2"       -> {B("he"), B("exp"), B("x")}
      [] op.k = "matmul_cls"     -> {B("x")}
      [] op.k = "output"         -> {B("x")}
      [] op.k = "fused_coop"     -> {B("x"), B("xb"), B("q"), B("att"), B("exp"), B("hb"), B("he")}
                                    \cup {KC(l) : l \in Layers} \cup {VC(l) : l \in Layers}
      [] OTHER                   -> {}

Writes(op) ==
    CASE op.k = "embed"          -> {B("x")}
      [] op.k = "rotate_sink"    -> {KC(l) : l \in Layers}
      [] op.k = "rmsnorm"        -> {B(op.o)}
      [] op.k = "layernorm"      -> {B(op.o)} \cup (IF op.acc THEN {B("x")} ELSE {})
      [] op.k = "rope_qkv"       -> {B("q"), KC(op.l), VC(op.l)}
      [] op.k = "attn_score"     -> {B("att")}
      [] op.k = "attn_softmax"   -> {B("att")}
      [] op.k = "attn_mix"       -> {B("q")}
      [] op.k = "matmul_attn"    -> {B("x")}
      [] op.k = "ffn13"          -> {B("hb")}
      [] op.k = "ffn1_gelu"      -> {B("hb")}
      [] op.k = "ffn2"           -> {B(op.o)}
      [] op.k = "moe_gate"       -> {B("exp")}
      [] op.k = "moe_ffn13_silu" -> {B("he")}
      [] op.k = "moe_ffn2"       -> {B("x")}
      [] op.k = "matmul_cls"     -> {B("logits")}
      [] op.k = "output"         -> {B("logits")}
      [] op.k = "fused_coop"     -> {B("x"), B("xb"), B("q"), B("att"), B("exp"), B("hb"), B("he")}
                                    \cup {KC(l) : l \in Layers} \cup {VC(l) : l \in Layers}
      [] OTHER                   -> {}

\* the buffers a phase of the cooperative kernel reads and writes (lines 894-1061)
PhaseReads(p) ==
    LET n == PhaseName(p)  l == PhaseLayer(p) IN
    CASE n = "norm"    -> {B("x")}
      [] n = "qkv"     -> {B("xb")}
      [] n = "score"   -> {B("q"), KC(l)}
      [] n = "softmax" -> {B("att")}
      [] n = "mix"     -> {B("att"), VC(l)}
      [] n = "out"     -> {B("q"), B("x")}
      [] n = "ffnnorm" -> {B("x")}
      [] n = "ffn13"   -> {B("xb"), B("exp")}
      [] n = "ffn2"    -> {B(IF config.arch = "Mixtral" THEN "he" ELSE "hb"), B("exp"), B("x")}

PhaseWrites(p) ==
    LET n == PhaseName(p)  l == PhaseLayer(p) IN
    CASE n = "norm"    -> {B("xb")}
      [] n = "qkv"     -> {B("q"), KC(l), VC(l)}
      [] n = "score"   -> {B("att")}
      [] n = "softmax" -> {B("att")}
      [] n = "mix"     -> {B("q")}
      [] n = "out"     -> {B("x")}
      [] n = "ffnnorm" -> {B("xb"), B("exp")}
      [] n = "ffn13"   -> {B(IF config.arch = "Mixtral" THEN "he" ELSE "hb")}
      [] n = "ffn2"    -> {B("x")}

----------------------------------------------------------------------------
(* The state after prepare_cuda *)

\* cuda_devicealloc leaves the buffers as cudaMalloc returns them; exp is the dummy
\* { 1.0f, 0 } when the model has no experts (lines 95-115)
InitState(arch) ==
    [x |-> Poison, xb |-> Poison, xa |-> Poison, hb |-> Poison, he |-> Poison, q |-> Poison,
     att |-> [a \in AttIdx |-> Poison],
     exp |-> IF arch = "Mixtral" THEN [wt |-> Poison, e |-> 0] ELSE [wt |-> 1, e |-> 0],
     logits |-> Poison,
     key_cache |-> [o \in CacheIdx |-> UninitEl],
     value_cache |-> [o \in CacheIdx |-> UninitEl],
     rmsscale |-> Poison,
     lnin |-> Poison,
     oob |-> FALSE]

InitHost ==
    [pc |-> "idle", ret |-> "none", ncalls |-> 0, syncs |-> 0, driver |-> "none",
     inst |-> <<"", "">>, lasterr |-> FALSE, launched |-> 0, pending |-> FALSE, call |-> NoCall]

\* what the caller has done so far: whether it fed positions 0, 1, 2, ... in order, whether
\* it did and every call before the last had FF_UPDATE_KV_ONLY, how many calls had pos >= seq_len, and
\* for each sink slot how many calls with pos >= seq_len followed the last write of the slot
InitCaller(mode) ==
    [mode |-> mode, seq |-> TRUE, prefill |-> TRUE, wraps |-> 0,
     since |-> [t \in 0 .. (KV_SINKS - 1) |-> 0]]

\* the device operations that can fail: none, the runtime calls of prepare_cuda that are
\* checked, cudaMemcpyToSymbol, a <<<...>>> launch, cudaEventRecord / cudaStreamWaitEvent,
\* cudaLaunchCooperativeKernel, cudaStreamSynchronize
Faults == {"none", "alloc", "symbol", "launch", "event", "cooplaunch", "sync"}

NoUnit == [k |-> "none"]

\* coopsms is set from the device's SM count when CALM_COOP is set (lines 117-120)
InitProgram(mode, archs, coops, tags, sms, faults) ==
    /\ config \in [arch : archs]
    /\ coop \in coops
    /\ coopsms \in IF coop # 0 THEN sms ELSE {0}
    /\ device \in [fails : faults,
                   stale : IF config.arch = "Mixtral" /\ coop # 0 /\ mode # "unit"
                           THEN BOOLEAN ELSE {FALSE}]
    /\ \E dk \in tags : dbits = dk[1] /\ kvbits = dk[2]
    /\ s = InitState(config.arch)
    /\ ref = InitState(config.arch)
    /\ stream = << >>
    /\ parstream = << >>
    /\ parsync = [e \in {0, 1} |-> 0]
    /\ bpc = [b \in Blocks |-> 0]
    /\ host = [InitHost EXCEPT !.pc = IF mode = "fault" THEN "start" ELSE "idle"]
    /\ caller = InitCaller(mode)

InitWith(mode, archs, coops, tags) ==
    /\ InitProgram(mode, archs, coops, tags, {MaxSMs}, {"none"})
    /\ unit = NoUnit

\* the tag pairs a loaded model can have: kvbits is asserted in prepare_cuda (line 110)
DbitsSet == {4, 8, 16, 32}

KvbitsSet == {8, 16}

ValidTags == {dk \in DbitsSet \X KvbitsSet : Instantiation(dk[1], dk[2]) # <<"", "">>}

----------------------------------------------------------------------------
(* The host thread *)

IsKernel(op) == op.k \notin {"record", "wait"}

Numbered(ops) == [i \in 1 .. Len(ops) |-> [ops[i] EXCEPT !.id = i]]

OnStream(ops, st) == SelectSeq(ops, LAMBDA op : op.st = st)

RECURSIVE RunSeq(_, _)
\* the kernels of a call one after the other
RunSeq(st, ops) == IF ops = << >> THEN st ELSE RunSeq(Kernel(st, Head(ops)), Tail(ops))

\* a failed assert, or a failed CUDA_CHECK: abort()
Abort(driver) ==
    /\ host' = [host EXCEPT !.pc = "aborted", !.ret = "none", !.driver = driver,
                            !.launched = 0, !.syncs = 0]
    /\ UNCHANGED <<device, unit, config, dbits, kvbits, coop, coopsms, s, stream, parstream, parsync, bpc, ref, caller>>

\* a <<<...>>> launch: its failure is not returned, it is left for cudaGetLastError
IsLaunch(op) == IsKernel(op) /\ op.k # "fused_coop"

\* what gets enqueued: a launch that fails enqueues nothing
Launched(ops) ==
    IF device.fails = "launch" THEN SelectSeq(ops, LAMBDA op : ~IsLaunch(op)) ELSE ops

\* the launches of a call; with FF_UPDATE_KV_ONLY the driver returns NULL right after them,
\* otherwise it goes on to cudaStreamSynchronize
Launch(c, driver, ops, ops0) ==
    /\ stream' = stream \o OnStream(Launched(Numbered(ops)), "main")
    /\ parstream' = parstream \o OnStream(Launched(Numbered(ops)), "par")
    /\ host' = [host EXCEPT
                  !.pc = IF BitAnd1(c.flags) # 0 THEN "idle" ELSE "sync",
                  !.ret = IF BitAnd1(c.flags) # 0 THEN "null" ELSE "none",
                  !.ncalls = @ + 1,
                  !.syncs = 0,
                  !.driver = driver,
                  !.inst = Instantiation(dbits, kvbits),
                  !.lasterr = @ \/ (driver = "forward" /\ ScoreGrid(c) <= 0
                                    /\ ~KvOnlyBreak(c, 0))
                                \/ device.fails = "launch",
                  !.launched = Cardinality({i \in 1 .. Len(ops) : IsKernel(ops[i])}),
                  !.pending = BitAnd1(c.flags) # 0 /\ Len(stream') + Len(parstream') > 0,
                  !.call = c]
    /\ ref' = RunSeq(ref, ops0)
    /\ caller' = [caller EXCEPT
                  !.seq = @ /\ c.pos = host.ncalls,
                  !.prefill = @ /\ caller.mode = "seq"
                              /\ (host.ncalls = 0 \/ BitAnd1(host.call.flags) # 0),
                  !.wraps = @ + (IF c.pos >= seq_len THEN 1 ELSE 0),
                  !.since = [t \in 0 .. (KV_SINKS - 1) |->
                               IF c.kv_pos = t THEN 0
                               ELSE @[t] + (IF c.pos >= seq_len THEN 1 ELSE 0)]]
    /\ UNCHANGED <<device, unit, config, dbits, kvbits, coop, coopsms, s, parsync, bpc>>

forward(c) ==
    IF ~(c.token < vocab_size) THEN Abort("forward")
    ELSE IF config.arch = "Phi" /\ device.fails = "event" THEN Abort("forward")
    ELSE Launch(c, "forward", forward_ops(c), forward_ops([c EXCEPT !.flags = 0]))

forwardcoop(c) ==
    IF config.arch \notin CoopArchs THEN Abort("forwardcoop")
    ELSE IF ~(c.token < vocab_size) THEN Abort("forwardcoop")
    ELSE IF device.fails = "cooplaunch" THEN Abort("forwardcoop")
    ELSE Launch(c, "forwardcoop", forwardcoop_ops(c), forwardcoop_ops([c EXCEPT !.flags = 0]))

\* lines 70-140: the runtime calls under CUDA_CHECK abort when they fail; cudaMemcpyToSymbol
\* (line 136, made when CALM_COOP is set) is not checked, and its error stays the last error
prepare_cuda ==
    /\ host.pc = "start"
    /\ host' = IF device.fails = "alloc" THEN [host EXCEPT !.pc = "aborted"]
               ELSE [host EXCEPT !.pc = "idle",
                                 !.lasterr = coop # 0 /\ device.fails = "symbol"]
    /\ UNCHANGED <<device, unit, config, dbits, kvbits, coop, coopsms, s, stream, parstream,
                   parsync, bpc, ref, caller>>

\* the calls the caller makes: in order from position 0, at any position, or with any
\* arguments
Positions ==
    CASE caller.mode \in {"seq", "fault"} -> {host.ncalls}
      [] caller.mode = "any" -> 0 .. MaxPos
      [] OTHER               -> {0 - 1, 0, seq_len}

\* the text is fixed, so the token is the one of the position; with any arguments the caller
\* passes any token
Tokens(pos) == IF caller.mode = "args" THEN 0 .. vocab_size ELSE {pos % vocab_size}

CallLimit ==
    CASE caller.mode = "seq" -> MaxCalls
      [] caller.mode = "any" -> MaxCallsAny
      [] caller.mode = "fault" -> MaxCallsArgs
      [] OTHER               -> MaxCallsArgs

forward_cuda(token, pos, flags) ==
    /\ host.pc = "idle"
    /\ host.ncalls < CallLimit
    /\ Len(stream) + Len(parstream) <= QueueCap
    /\ LET c == Call(token, pos, flags, host.ncalls)
       IN IF Instantiation(dbits, kvbits) = <<"", "">> THEN Abort("none")
          ELSE IF Driver = "forwardcoop" THEN forwardcoop(c)
          ELSE forward(c)

\* variant: the host does not wait
StreamSynchronized_nowait == TRUE

\* cudaStreamSynchronize(stream) returns once everything enqueued on stream has completed
StreamSynchronized == stream = << >>

\* lines 795-798 and 1175-1178
ForwardReturn ==
    /\ host.pc = "sync"
    /\ StreamSynchronized
    /\ host' = IF host.lasterr \/ device.fails = "sync"
               THEN [host EXCEPT !.pc = "aborted", !.syncs = @ + 1]
               ELSE [host EXCEPT !.pc = "idle", !.ret = "logits", !.syncs = @ + 1,
                                 !.pending = Len(stream) + Len(parstream) > 0]
    /\ UNCHANGED <<device, unit, config, dbits, kvbits, coop, coopsms, s, stream, parstream, parsync, bpc, ref, caller>>

----------------------------------------------------------------------------
(* The device *)

\* a stream runs its operations in order; a wait lets the stream go on once the record it
\* waits for has completed
Runnable(q) ==
    /\ q # << >>
    /\ Head(q).k = "wait" => parsync[Head(q).ev] >= Head(q).gen

Exec(op) ==
    IF op.k = "record" THEN parsync' = [parsync EXCEPT ![op.ev] = op.gen] /\ s' = s
    ELSE parsync' = parsync /\ s' = Kernel(s, op)

ExecMain ==
    /\ host.pc # "aborted"
    /\ Runnable(stream)
    /\ Head(stream).k # "fused_coop"
    /\ Exec(Head(stream))
    /\ stream' = Tail(stream)
    /\ UNCHANGED <<device, unit, config, dbits, kvbits, coop, coopsms, parstream, bpc, host, ref, caller>>

ExecPar ==
    /\ host.pc # "aborted"
    /\ Runnable(parstream)
    /\ Exec(Head(parstream))
    /\ parstream' = Tail(parstream)
    /\ UNCHANGED <<device, unit, config, dbits, kvbits, coop, coopsms, stream, bpc, host, ref, caller>>

\* the threads of a block: __launch_bounds__(1024, 1), launched with 1024
BlockThreads == 0 .. 1023

\* whether thread th of block b comes to the block-level barriers of phase ph: those of
\* blockreduce_sum in rmsnorm under `if (blockIdx.x == 0)`, of blockreduce_max in softmax
\* under `if (blockIdx.x < args.n_heads)`, and the __syncthreads() before moe_gate_warp under
\* `if (blockIdx.x == 0)` and `if (args.n_experts)`; the strided loops have none
AtBlockBarrier(ph, b, th, n_experts) ==
    CASE ph = "norm"    -> <<b = 0>>
      [] ph = "softmax" -> <<b < n_heads>>
      [] ph = "ffnnorm" -> <<b = 0, b = 0 /\ n_experts # 0>>
      [] OTHER          -> << >>

\* variant: no barrier
syncgrid_none(b) == TRUE

\* variant: a block leaves the barrier only once the others are past it
syncgrid_wait(b) == \A b2 \in Blocks \ {b} : bpc[b2] > bpc[b]

\* grid::sync: a block leaves the barrier before phase p once every block has arrived
syncgrid(b) == \A b2 \in Blocks : bpc[b2] >= bpc[b]

\* block b runs its share of the next phase of the cooperative kernel; the phase's output
\* is complete when the last block has run its share
CoopStep(b) ==
    /\ host.pc # "aborted"
    /\ stream # << >>
    /\ Head(stream).k = "fused_coop"
    /\ bpc[b] < NPhases
    /\ syncgrid(b)
    /\ LET p    == bpc[b]
           bpc1 == [bpc EXCEPT ![b] = p + 1]
       IN /\ s' = IF \A b2 \in Blocks : bpc1[b2] > p THEN CoopPhase(s, Head(stream), p) ELSE s
          /\ IF \A b2 \in Blocks : bpc1[b2] = NPhases
             THEN bpc' = [b2 \in Blocks |-> 0] /\ stream' = Tail(stream)
             ELSE bpc' = bpc1 /\ stream' = stream
    /\ UNCHANGED <<device, unit, config, dbits, kvbits, coop, coopsms, parstream, parsync, host, ref, caller>>

----------------------------------------------------------------------------

Next ==
    \/ \E pos \in Positions :
          \E token \in Tokens(pos), flags \in {0, FF_UPDATE_KV_ONLY} :
             forward_cuda(token, pos, flags)
    \/ ForwardReturn
    \/ ExecMain
    \/ ExecPar
    \/ \E b \in Blocks : CoopStep(b)

\* the caller feeds positions 0, 1, 2, ... in order
Init == InitWith("seq", Archs, {0, 1}, {<<16, 16>>})

Spec == Init /\ [][Next]_vars

\* the caller calls at any position
InitAny == InitWith("any", {"LlamaLike", "Phi"}, {0, 1}, {<<16, 16>>})

SpecAny == InitAny /\ [][Next]_vars

\* the caller passes any arguments, and the model has any tags
InitArgs == InitWith("args", {"LlamaLike", "Phi"}, {0, 1}, DbitsSet \X KvbitsSet)

SpecArgs == InitArgs /\ [][Next]_vars

\* the cooperative driver on devices of 1 .. MaxSMs multiprocessors
InitSms ==
    /\ InitProgram("seq", CoopArchs, {1}, {<<16, 16>>}, 1 .. MaxSMs, {"none"})
    /\ unit = NoUnit

NextSms ==
    \/ \E pos \in Positions :
          \E token \in Tokens(pos), flags \in {0, FF_UPDATE_KV_ONLY} :
             forward_cuda(token, pos, flags)
    \/ ForwardReturn
    \/ ExecMain
    \/ \E b \in Blocks : CoopStep(b)

SpecSms == InitSms /\ [][NextSms]_vars

\* from before prepare_cuda, on a device where one kind of operation fails
InitFault ==
    /\ InitProgram("fault", {"LlamaLike", "Phi"}, {0, 1}, {<<16, 16>>}, {MaxSMs}, Faults)
    /\ unit = NoUnit

NextFault ==
    \/ prepare_cuda
    \/ \E pos \in Positions :
          \E token \in Tokens(pos), flags \in {0, FF_UPDATE_KV_ONLY} :
             forward_cuda(token, pos, flags)
    \/ ForwardReturn
    \/ ExecMain
    \/ ExecPar
    \/ \E b \in Blocks : CoopStep(b)

SpecFault == InitFault /\ [][NextFault]_vars

----------------------------------------------------------------------------
(* Device functions and checks taken alone: `unit` holds the arguments and the result, *)
(* and the program itself stays as prepare_cuda left it.                               *)

program == <<config, dbits, kvbits, coop, coopsms, s, stream, parstream, parsync, bpc, host,
             ref, caller, device>>

(* model.h *)
MAX_LAYERS == 128

MAX_EXPERTS == 64

\* kernel_moe_gate: __shared__ float ws[32], one warp per expert, and assert(n_experts <= 32)
\* in forward; the cooperative kernel has 1024 threads, 32 warps
GateWarps == 32

\* the configurations tried: struct Config n_layers and n_experts of a Mixtral model
LayerCounts == {1, 2, MAX_LAYERS - 1, MAX_LAYERS, MAX_LAYERS + 1, MAX_LAYERS + 2}

ExpertCounts ==
    {1, 2, 8, GateWarps - 1, GateWarps, GateWarps + 1, MAX_EXPERTS - 1, MAX_EXPERTS,
     MAX_EXPERTS + 1, MAX_EXPERTS + 2}

\* prepare_cuda on the configuration: n_layers is used as a loop bound over layers[MAX_LAYERS]
\* when CALM_COOP is set (lines 122-134) and is checked nowhere; n_experts only sizes exp.
\* Writing past layers[] is undefined: the call returns or the process dies.
PrepareConfig ==
    /\ unit.k = "limits"
    /\ unit.step = "config"
    /\ \E r \in IF coop # 0 /\ unit.n_layers > MAX_LAYERS THEN {"undefined", "crashed"}
                 ELSE {"accepted"} :
          unit' = [unit EXCEPT !.step = IF r = "crashed" THEN "dead" ELSE "prepared", !.res = r]
    /\ UNCHANGED program

\* the first forward call on the configuration: forward asserts n_experts <= 32 (line 726)
\* and reads the per-layer weight arrays of MAX_LAYERS entries at l < n_layers; forwardcoop
\* checks neither, and its gate runs on the first 32 warps of block 0 (lines 1016-1029)
ForwardConfig ==
    /\ unit.k = "limits"
    /\ unit.step = "prepared"
    /\ \E r \in IF coop = 0 /\ unit.n_experts > GateWarps THEN {"rejected"}
                 ELSE IF unit.n_layers > MAX_LAYERS THEN {"undefined", "crashed"}
                 ELSE {unit.res} :
          unit' = [unit EXCEPT
                     !.step = "called",
                     !.res = r,
                     !.gate = IF r = "rejected" THEN 0
                              ELSE IF unit.n_experts < GateWarps THEN unit.n_experts
                              ELSE GateWarps]
    /\ UNCHANGED program

InitLimits ==
    /\ InitProgram("unit", {"Mixtral"}, {0, 1}, {<<16, 16>>}, {MaxSMs}, {"none"})
    /\ unit \in [k : {"limits"}, step : {"config"}, n_layers : LayerCounts,
                  n_experts : ExpertCounts, res : {"none"}, gate : {0}]

NextLimits == PrepareConfig \/ ForwardConfig

SpecLimits == InitLimits /\ [][NextLimits]_vars

----------------------------------------------------------------------------
(* moe_gate_warp on one warp.  A float is its 32-bit word: for the floats >= 0 the words *)
(* are ordered as the values are.  A gate logit is an integer in units of 1e-6.          *)

warpSize == 32

Lanes == 0 .. (warpSize - 1)

\* the most experts tried
MaxGateE == 3

\* the gate logits tried: equal, apart by a few 1e-6, apart by 1 and 2, and apart by 98
LogitSet == {0, 0 - 5, 0 - 10, 0 - 1000000, 0 - 2000000, 0 - 98000000}

\* expf(-d / 1e6) as a float word, at the distances the logits tried can have: 1.0,
\* 0.999995, 0.99999, e^-1, e^-2, e^-96, e^-97, e^-98 (a denormal below 2^-141), and 0
ExpBits(d) ==
    CASE d = 0         -> 1065353216
      [] d <= 5        -> 1065353132
      [] d <= 10       -> 1065353048
      [] d <= 1000000  -> 1052531378
      [] d <= 2000000  -> 1040880981
      [] d <= 96000000 -> 1449
      [] d <= 97000000 -> 533
      [] d <= 98000000 -> 196
      [] OTHER         -> 0

\* warpreduce_max and warpreduce_maxi: the largest value any lane holds
warpreduce_max(f) == CHOOSE m \in {f[i] : i \in Lanes} : \A i \in Lanes : f[i] <= m

\* max_val over the warp; a warp always has lane 0 < experts
GateMax(weights, experts) ==
    CHOOSE m \in {weights[i] : i \in 1 .. experts} : \A i \in 1 .. experts : weights[i] <= m

\* float w = (i < experts) ? weights[i] : -FLT_MAX; w = expf(w - max_val): 0 for the
\* lanes that hold -FLT_MAX
GateExp(weights, experts, i) ==
    IF i < experts THEN ExpBits(GateMax(weights, experts) - weights[i + 1]) ELSE 0

\* variant: the index is added without clearing the low bits
Pack_nomask(w, i) == w + i

\* (__float_as_int(w) & 0xffffff00) | i: weight in top 24 bits, index in bottom 8
Pack(w, i) == (w \div 256) * 256 + i

\* variant: the chosen lane keeps its weight
ClearLane_keep(wi, maxi) == wi

\* wi = (wi == maxi) ? 0 : wi
ClearLane(wi, maxi) == [i \in Lanes |-> IF wi[i] = maxi THEN 0 ELSE wi[i]]

RECURSIVE GateLoop(_, _)
\* the loop over k < active: the maxi of each round, in order
GateLoop(wi, active) ==
    IF active = 0 THEN << >>
    ELSE LET maxi == warpreduce_max(wi)
         IN <<maxi>> \o GateLoop(ClearLane(wi, maxi), active - 1)

\* moe_experts[k] = acti & 0xff and moe_weights[k] = __int_as_float(acti) / sumw, the weight
\* as its numerator and the terms that were added up into sumw
moe_gate_warp(weights, experts, active) ==
    LET wi   == [i \in Lanes |-> Pack(GateExp(weights, experts, i), i)]
        acti == GateLoop(wi, active)
    IN [moe_experts |-> [k \in 1 .. active |-> acti[k] % 256],
        moe_weights |-> [k \in 1 .. active |-> [num |-> acti[k], sumw |-> acti]]]

\* kernel_moe_gate / the gate of the cooperative kernel on the logits in unit
GateStep ==
    /\ unit.k = "gate"
    /\ unit.step = "in"
    /\ unit' = [unit EXCEPT !.step = "out",
                            !.out = moe_gate_warp(unit.weights, unit.experts, unit.active)]
    /\ UNCHANGED program

GateInputs ==
    UNION {[k : {"gate"}, step : {"in"}, experts : {e}, active : 1 .. e,
            weights : [1 .. e -> LogitSet], out : {<< >>}] : e \in 1 .. MaxGateE}

InitGate ==
    /\ InitProgram("unit", {"Mixtral"}, {0}, {<<16, 16>>}, {MaxSMs}, {"none"})
    /\ unit \in GateInputs

NextGate == GateStep

SpecGate == InitGate /\ [][NextGate]_vars

----------------------------------------------------------------------------
(* attn_warpdot on one warp, on integers: att and val are exact, the quotient res / sum  *)
(* is kept as its two terms.                                                             *)

\* the longest window tried: the loop of a lane runs twice from 4 * warpSize on
MixSmax == 136

\* the ways tried to fill att and val
MixSeeds == 3

\* variant: rounded up to a multiple of 4
Len4_up(kvl) == ((kvl + 3) \div 4) * 4

\* int kv_len4 = kv_len & ~3
Len4(kvl) == (kvl \div 4) * 4

RECURSIVE WarpDotLoop(_, _, _, _, _)
\* for (int t = lane * 4; t < kv_len4; t += warpSize * 4): four products into res, four
\* weights into sum
WarpDotLoop(val, atth, kvl4, t, acc) ==
    IF t < kvl4
    THEN WarpDotLoop(val, atth, kvl4, t + warpSize * 4,
                     [res |-> acc.res + val[t] * atth[t] + val[t + 1] * atth[t + 1]
                                      + val[t + 2] * atth[t + 2] + val[t + 3] * atth[t + 3],
                      sum |-> acc.sum + atth[t] + atth[t + 1] + atth[t + 2] + atth[t + 3]])
    ELSE acc

\* res and sum of one lane before the reduction: the loop, then the tail
WarpDotLane(val, atth, kvl, lane) ==
    LET kvl4 == Len4(kvl)
        acc     == WarpDotLoop(val, atth, kvl4, lane * 4, [res |-> 0, sum |-> 0])
    IN IF kvl4 + lane < kvl
       THEN [res |-> acc.res + atth[kvl4 + lane] * val[kvl4 + lane],
             sum |-> acc.sum + atth[kvl4 + lane]]
       ELSE acc

RECURSIVE warpreduce_sum(_, _, _)
\* warpreduce_sum: the sum of the values of the n lanes from lane lo on, by halves
warpreduce_sum(f, lo, n) ==
    IF n = 1 THEN f[lo]
    ELSE warpreduce_sum(f, lo, n \div 2) + warpreduce_sum(f, lo + n \div 2, n - n \div 2)

\* return res / sum, as numerator and denominator
attn_warpdot(val, atth, kvl) ==
    LET part == [lane \in Lanes |-> WarpDotLane(val, atth, kvl, lane)]
    IN [res |-> warpreduce_sum([lane \in Lanes |-> part[lane].res], 0, warpSize),
        sum |-> warpreduce_sum([lane \in Lanes |-> part[lane].sum], 0, warpSize)]

\* kernel_attn_mix for one head h and one element i: xout[h * head_dim + i] = res
MixStep ==
    /\ unit.k = "mix"
    /\ unit.step = "in"
    /\ unit' = [unit EXCEPT !.step = "out",
                            !.out = attn_warpdot(unit.val, unit.att, unit.kv_len)]
    /\ UNCHANGED program

\* att holds weights > 0 below kv_len (the softmax kernel writes expf there) and whatever
\* earlier calls left from kv_len on; val likewise
MixInputs ==
    {[k |-> "mix", step |-> "in", kv_len |-> n,
      att |-> [t \in 0 .. (MixSmax + 4) |-> IF t < n THEN 1 + ((t * sd) % 7) ELSE 1000 + t],
      val |-> [t \in 0 .. (MixSmax + 4) |-> IF t < n THEN (t * t + sd) % 11 ELSE 500 + t],
      out |-> << >>] : n \in 1 .. MixSmax, sd \in 1 .. MixSeeds}

InitMix ==
    /\ InitProgram("unit", {"LlamaLike"}, {0}, {<<16, 16>>}, {MaxSMs}, {"none"})
    /\ unit \in MixInputs

NextMix == MixStep

SpecMix == InitMix /\ [][NextMix]_vars

----------------------------------------------------------------------------
(* The MoE down-projection into one element of x, run twice from the same inputs.  A     *)
(* float here has MantBits significant bits and is an integer >= 0; a sum is rounded to  *)
(* the nearest float, a tie to the even one.                                             *)

MantBits == 3

\* the largest x tried, and the largest product val * moe_weights[e]
AtomMaxX == 12

AtomMaxVal == 3

\* the experts that add into x[j]: j, j + dim, ... below dim * n_experts_ac
AtomExperts == {0, 1}

RECURSIVE FUlp(_, _)
\* the spacing of the floats around n
FUlp(n, u) == IF n < u * (2 ^ MantBits) THEN u ELSE FUlp(n, 2 * u)

FRound(n) ==
    LET u == FUlp(n, 1)
        q == n \div u
        r == n % u
    IN IF 2 * r < u \/ (2 * r = u /\ q % 2 = 0) THEN q * u ELSE (q + 1) * u

\* a + b in float
fadd(a, b) == FRound(a + b)

\* atomicAdd(&args.x[j % dim], val * moe_weights[j / dim]) by the warp of expert slot e, in
\* run r: the warps of the two slots reach it in either order
AtomicAdd(r, e) ==
    /\ unit.k = "atomic"
    /\ unit.driver = "forwardcoop"
    /\ e \in unit.run[r].todo
    /\ unit' = [unit EXCEPT !.run[r] = [x    |-> fadd(@.x, unit.val[e]),
                                         todo |-> @.todo \ {e}]]
    /\ UNCHANGED program

\* kernel_matmul_moe_ffn2 in run r: thread (0, 0) adds up rs[k] * moe_weights[k] for
\* k = 0, 1, ... into acc, then xout[i] += acc
MoeFfn2(r) ==
    /\ unit.k = "atomic"
    /\ unit.driver = "forward"
    /\ unit.run[r].todo # {}
    /\ unit' = [unit EXCEPT !.run[r] = [x    |-> fadd(@.x, fadd(fadd(0, unit.val[0]), unit.val[1])),
                                         todo |-> {}]]
    /\ UNCHANGED program

AtomInputs ==
    {[k |-> "atomic", driver |-> d, x0 |-> x, val |-> v,
      run |-> [r \in {1, 2} |-> [x |-> x, todo |-> AtomExperts]]] :
        d \in {"forward", "forwardcoop"}, x \in {FRound(n) : n \in 0 .. AtomMaxX},
        v \in [AtomExperts -> 1 .. AtomMaxVal]}

InitAtomic ==
    /\ InitProgram("unit", {"Mixtral"}, {0, 1}, {<<16, 16>>}, {MaxSMs}, {"none"})
    /\ unit \in {u \in AtomInputs : u.driver = Driver}

NextAtomic ==
    \/ \E r \in {1, 2}, e \in AtomExperts : AtomicAdd(r, e)
    \/ \E r \in {1, 2} : MoeFfn2(r)

SpecAtomic == InitAtomic /\ [][NextAtomic]_vars

----------------------------------------------------------------------------
(* The strided loops of the cooperative kernel: which warp takes which index *)

IK == 2

\* the most blocks tried, and the longest range of a phase
MaxGrid == 3

MaxRange == 100

\* threadIdx.x / warpSize of the threads of a block
BlockWarps == {th \div warpSize : th \in BlockThreads}

\* variant: the groups of one block are gridDim.x apart, not gridDim.x * IK
io_near(b, w, g) == b * IK + (w % IK) + g * (w \div IK)

\* int io = blockIdx.x * IK + (threadIdx.x / warpSize % IK)
\*        + gridDim.x * IK * (threadIdx.x / warpSize / IK)
io(b, w, g) == b * IK + (w % IK) + g * IK * (w \div IK)

\* int ib = (gridDim.x * blockDim.x) / warpSize
ib(g) == (g * Cardinality(BlockThreads)) \div warpSize

\* whether j is a value of the loop variable in
\* `for (int j = io * m; j < n; j += ib * m)`, m = 1, or m = 2 in the QKV loop
LoopJ(b, w, g, n, m, j) ==
    j < n /\ j >= io(b, w, g) * m /\ (j - io(b, w, g) * m) % (ib(g) * m) = 0

\* whether the warp writes index i in the phase: with m = 2 it takes j and j + 1
WarpTakes(b, w, g, n, m, i) == \E c \in 0 .. (m - 1) : i - c >= 0 /\ LoopJ(b, w, g, n, m, i - c)

\* one phase loop run by every warp of the grid: for each index, the warps that take it
PhaseLoop ==
    /\ unit.k = "warps"
    /\ unit.step = "in"
    /\ unit' = [unit EXCEPT
                  !.step = "out",
                  !.io = {<<bw, io(bw[1], bw[2], unit.g)>> :
                             bw \in (0 .. (unit.g - 1)) \X BlockWarps},
                  !.by = [j \in 0 .. (unit.n + 1) |->
                            {bw \in (0 .. (unit.g - 1)) \X BlockWarps :
                                WarpTakes(bw[1], bw[2], unit.g, unit.n, unit.m, j)}]]
    /\ UNCHANGED program

\* the ranges are q_dim + 2 kv_dim (even, m = 2), kv_len32 * n_heads, q_dim, dim,
\* hidden_dim * n_experts_ac and dim * n_experts_ac (m = 1)
WarpInputs ==
    {[k |-> "warps", step |-> "in", g |-> g, n |-> n * m, m |-> m, io |-> {}, by |-> << >>] :
        g \in 1 .. MaxGrid, n \in 1 .. MaxRange, m \in {1, 2}}

InitWarps ==
    /\ InitProgram("unit", {"LlamaLike"}, {1}, {<<16, 16>>}, {MaxSMs}, {"none"})
    /\ unit \in WarpInputs

NextWarps == PhaseLoop

SpecWarps == InitWarps /\ [][NextWarps]_vars

----------------------------------------------------------------------------
(* The FFN-norm phase in block 0: the store of rmsscale and the gate warps that read it *)

\* the values a scale takes
ScaleVals == 3

\* thread 0 after rmsnorm: `if (threadIdx.x == 0) { rmsscale = scale; }`
ScaleStore ==
    /\ unit.k = "race"
    /\ ~unit.stored
    /\ unit' = [unit EXCEPT !.stored = TRUE, !.rmsscale = unit.scale]
    /\ UNCHANGED program

\* variant: no gate warp reads before thread 0 has stored
GateLoad_synced(j) ==
    /\ unit.k = "race"
    /\ j < unit.n_experts
    /\ unit.got[j] = 0
    /\ unit.stored
    /\ unit' = [unit EXCEPT !.got[j] = unit.rmsscale]
    /\ UNCHANGED program

\* warp j < n_experts: `matmul_warppar(args.xb, L->moegate, j, dim) * rmsscale`. The block
\* is past the barriers of rmsnorm; nothing orders the load after the store of thread 0
\* except in warp 0, the warp of thread 0 itself
GateLoad(j) ==
    /\ unit.k = "race"
    /\ j < unit.n_experts
    /\ unit.got[j] = 0
    /\ j = 0 => unit.stored
    /\ unit' = [unit EXCEPT !.got[j] = unit.rmsscale]
    /\ UNCHANGED program

\* __syncthreads() before moe_gate_warp: every thread of the block has arrived
GateSync ==
    /\ unit.k = "race"
    /\ unit.step = "in"
    /\ unit.stored
    /\ \A j \in 0 .. (unit.n_experts - 1) : unit.got[j] # 0
    /\ unit' = [unit EXCEPT !.step = "out"]
    /\ UNCHANGED program

\* rmsscale holds the scale of the pre-attention norm of the layer (line 901), scale is
\* what rmsnorm returned for the post-attention norm
RaceInputs ==
    {[k |-> "race", step |-> "in", rmsscale |-> old, scale |-> new, n_experts |-> e,
      stored |-> FALSE, got |-> [j \in 0 .. (e - 1) |-> 0]] :
        old \in 1 .. ScaleVals, new \in 1 .. ScaleVals, e \in 1 .. MaxGateE}

InitRace ==
    /\ InitProgram("unit", {"Mixtral"}, {1}, {<<16, 16>>}, {MaxSMs}, {"none"})
    /\ unit \in RaceInputs

NextRace ==
    \/ ScaleStore
    \/ \E j \in 0 .. (MaxGateE - 1) : GateLoad(j)
    \/ GateSync

SpecRace == InitRace /\ [][NextRace]_vars

----------------------------------------------------------------------------
(* The attention scores, thread by thread: the cells written and the keys read *)

attn_par == 2

\* the longest window tried, in vector loads: beyond one block of kernel_attn_score
\* (128 positions) and two warp rounds of the cooperative loop
ScoreQuads == 33

\* attn_score2 at t: attn_load4(&kht[j * seq_len + t * 2]) loads the elements j, j + 1 of
\* the positions t and t + 1 of the key head; the caller stores score.x, score.y at
\* atth[t + 0], atth[t + 1]
attn_score2(a) ==
    [wr |-> {<<a.th, a.h, a.t + c>> : c \in 0 .. 1},
     rd |-> {<<a.kvh, (a.t * 2 + i) \div 2>> : i \in 0 .. 3}]

\* kernel_attn_score: the threads of the grid that pass `if (t >= kv_len) return`
KernelScore(kvl) ==
    LET grid == (kvl + 64 * attn_par - 1) \div (64 * attn_par)
        all  == {[th |-> <<bx, tx, kvh, ty>>, h |-> kvh * kv_mul + ty, kvh |-> kvh,
                  t |-> (bx * (32 * attn_par) + tx) * 2] :
                    bx \in 0 .. (grid - 1), tx \in 0 .. (32 * attn_par - 1),
                    kvh \in 0 .. (n_kv_heads - 1), ty \in 0 .. (kv_mul - 1)}
    IN {a \in all : a.t < kvl}

\* variant: a lane takes the position after its neighbour's, not the pair after
CoopT_dense(j, lane) == (j \div n_heads) * warpSize + lane

\* int t = ((j / args.n_heads) * warpSize + (threadIdx.x % warpSize)) * 2
CoopT(j, lane) == ((j \div n_heads) * warpSize + lane) * 2

\* the score phase of kernel_fused_coop on g blocks: the lanes that pass
\* `if (t < args.kv_len)`; iteration j is run by the warp with io = j % ib
CoopScore(kvl, g) ==
    LET kv_len32 == (kvl + 31) \div 32
        all == {[th |-> <<j % ib(g), lane>>, h |-> j % n_heads, kvh |-> (j % n_heads) \div kv_mul,
                 t |-> CoopT(j, lane)] :
                   j \in 0 .. (kv_len32 * n_heads - 1), lane \in Lanes}
    IN {a \in all : a.t < kvl}

\* one score step of a layer, by either driver
ScoreStep ==
    /\ unit.k = "score"
    /\ unit.step = "in"
    /\ LET acts == IF unit.drv = "kernel" THEN KernelScore(unit.kv_len)
                   ELSE CoopScore(unit.kv_len, MaxSMs)
       IN unit' = [unit EXCEPT
                     !.step = "out",
                     !.wr = UNION {attn_score2(a).wr : a \in acts},
                     !.rd = UNION {attn_score2(a).rd : a \in acts}]
    /\ UNCHANGED program

\* kv_len is 1 .. seq_len (lines 645, 1103), seq_len a multiple of four
ScoreInputs ==
    {[k |-> "score", step |-> "in", drv |-> d, seq_len |-> 4 * n, kv_len |-> kvl,
      wr |-> {}, rd |-> {}] :
        d \in {"kernel", "coop"}, n \in {1, ScoreQuads}, kvl \in 1 .. (4 * ScoreQuads)}

InitScore ==
    /\ InitProgram("unit", {"LlamaLike"}, {0, 1}, {<<16, 16>>}, {MaxSMs}, {"none"})
    /\ unit \in {u \in ScoreInputs : u.kv_len <= u.seq_len /\ (coop # 0 <=> u.drv = "coop")}

NextScore == ScoreStep

SpecScore == InitScore /\ [][NextScore]_vars

----------------------------------------------------------------------------
(* Properties *)

\* the device has nothing left to do
Quiet == stream = << >> /\ parstream = << >> /\ host.pc # "aborted"

KvIdx == 0 .. (kv_dim - 1)

Slots == 0 .. (seq_len - 1)

SinkSlots == 0 .. (KV_SINKS - 1)

\* element e of the key / value of layer l at physical position t, as attention reads it
KeyCell(st, l, t, e) == KeyRead(st.key_cache, l, e \div head_dim, t, e % head_dim)

ValCell(st, l, t, e) == ValRead(st.value_cache, l, e \div head_dim, t, e % head_dim)

\* the physical position of pos: pos below seq_len, 2 + (pos - 2) mod (seq_len - 2) from there
ExpKvPos(pos) == IF pos < seq_len THEN pos ELSE 2 + ((pos - 2) % (seq_len - 2))

\* the rotary frequency of the pair element e belongs to
PairFreq(e) == FreqU((e - (e % 2)) % head_dim)

PendingOps == {stream[i] : i \in 1 .. Len(stream)} \cup {parstream[i] : i \in 1 .. Len(parstream)}

\* program order of the launches
Before(a, b) == a.c.n < b.c.n \/ (a.c.n = b.c.n /\ a.id < b.id)

Conflict(a, b) ==
    \/ Writes(a) \cap (Reads(b) \cup Writes(b)) # {}
    \/ Writes(b) \cap Reads(a) # {}

\* the KV cache of every layer, and the residual stream x
Tracked == {B("x")} \cup {KC(l) : l \in Layers} \cup {VC(l) : l \in Layers}

\* C1: every key and value element in the cache sits, in its own layer and at its own
\* index, at the physical position kv_pos of the pos it was written for (pos below seq_len
\* at pos, pos from seq_len on at 2 + (pos - 2) mod (seq_len - 2)); and once the device
\* has finished a call, whatever its flags and its driver, the key and the value of the
\* call's pos are there in every layer.
C1_WriteIndex ==
    /\ \A l \in Layers, t \in Slots, e \in KvIdx :
          /\ KeyCell(s, l, t, e).w =>
                /\ KeyCell(s, l, t, e).l = l
                /\ KeyCell(s, l, t, e).e = e
                /\ KeyCell(s, l, t, e).src >= 0
                /\ ExpKvPos(KeyCell(s, l, t, e).src) = t
          /\ ValCell(s, l, t, e).w =>
                /\ ValCell(s, l, t, e).l = l
                /\ ValCell(s, l, t, e).e = e
                /\ ValCell(s, l, t, e).src >= 0
                /\ ExpKvPos(ValCell(s, l, t, e).src) = t
    /\ ~s.oob
    /\ (Quiet /\ host.ncalls > 0) =>
          \A l \in Layers, e \in KvIdx :
             /\ KeyCell(s, l, ExpKvPos(host.call.pos), e).w
             /\ KeyCell(s, l, ExpKvPos(host.call.pos), e).src = host.call.pos
             /\ ValCell(s, l, ExpKvPos(host.call.pos), e).w
             /\ ValCell(s, l, ExpKvPos(host.call.pos), e).src = host.call.pos

\* a prefill call at pos = seq_len + 1 has been carried out: its key is at position 3
C1_Witness ==
    /\ Quiet
    /\ host.call.pos = seq_len + 1
    /\ BitAnd1(host.call.flags) = 1
    /\ \A l \in Layers : KeyCell(s, l, ExpKvPos(seq_len + 1), 0).src = seq_len + 1

\* C2: when the caller feeds positions 0, 1, 2, ... in order, a value element at physical
\* position 0 or 1, once written, never changes again, and a key element there changes
\* only in its rotary angle, which only grows.
C2_SinksKept ==
    [][\A l \in Layers, t \in SinkSlots, e \in KvIdx :
          /\ ValCell(s, l, t, e).w => ValCell(s', l, t, e) = ValCell(s, l, t, e)
          /\ KeyCell(s, l, t, e).w =>
                /\ [KeyCell(s', l, t, e) EXCEPT !.ang = 0] = [KeyCell(s, l, t, e) EXCEPT !.ang = 0]
                /\ KeyCell(s', l, t, e).ang >= KeyCell(s, l, t, e).ang]_vars

\* the cache has wrapped twice and the sinks still hold positions 0 and 1, the key of
\* position 1 turned by two steps
C2_Witness ==
    /\ Quiet
    /\ caller.wraps = 2
    /\ \A l \in Layers : ValCell(s, l, 0, 0).src = 0 /\ ValCell(s, l, 1, 0).src = 1
    /\ \A l \in Layers : KeyCell(s, l, 1, 0).src = 1 /\ KeyCell(s, l, 1, 0).ang = 3

\* C3 as stated: once the device has finished, every key element at physical positions 0
\* and 1 is turned by as many steps as there were calls with pos >= seq_len.
C3_RotatedByAllWraps ==
    Quiet =>
       \A l \in Layers, t \in SinkSlots, e \in KvIdx :
          KeyCell(s, l, t, e).w =>
             KeyCell(s, l, t, e).ang = (KeyCell(s, l, t, e).src + caller.wraps) * PairFreq(e)

\* C3: once the device has finished, every key element at physical positions 0 and 1 is
\* turned by as many steps of its pair's frequency as there were calls with pos >= seq_len
\* since the element was written; no key element at another position is ever turned.
C3_RotatedSinceWritten ==
    /\ Quiet =>
          \A l \in Layers, t \in SinkSlots, e \in KvIdx :
             KeyCell(s, l, t, e).w =>
                KeyCell(s, l, t, e).ang = (KeyCell(s, l, t, e).src + caller.since[t]) * PairFreq(e)
    /\ \A l \in Layers, t \in Slots \ SinkSlots, e \in KvIdx :
          KeyCell(s, l, t, e).w => KeyCell(s, l, t, e).ang = KeyCell(s, l, t, e).src * PairFreq(e)

\* position 0 was written between two calls with pos >= seq_len: its key is turned once
C3_Witness ==
    /\ Quiet
    /\ caller.wraps = 2
    /\ caller.since[0] = 1
    /\ \A l \in Layers : KeyCell(s, l, 0, 0).w /\ KeyCell(s, l, 0, 0).ang = 1

\* C4: a call with FF_UPDATE_KV_ONLY returns null; once the device has finished, the KV
\* cache is the one the same calls made without the flag leave; and the logits a call
\* returns are the logits it returns when every call before it was made without the flag.
C4_KvOnly ==
    /\ (host.pc = "idle" /\ host.ncalls > 0) =>
          ((host.ret = "null") <=> (BitAnd1(host.call.flags) # 0))
    /\ Quiet => s.key_cache = ref.key_cache /\ s.value_cache = ref.value_cache
    /\ (host.pc = "idle" /\ host.ret = "logits") => s.logits = ref.logits /\ s.logits >= 0

\* positions 0 .. seq_len were prefilled and the call at seq_len + 1 returned logits
C4_Witness ==
    /\ host.pc = "idle"
    /\ host.ret = "logits"
    /\ host.ncalls = seq_len + 2
    /\ caller.prefill
    /\ s.logits = ref.logits

\* C5 as stated: every call that returned synchronized once, and nothing it enqueued was
\* left when it returned.
C5_EveryCallSyncs ==
    (host.pc = "idle" /\ host.ncalls > 0) => host.syncs = 1 /\ ~host.pending

\* C5: a call without FF_UPDATE_KV_ONLY returns the logits after synchronizing once, with
\* nothing left on the streams; a call with FF_UPDATE_KV_ONLY returns null without
\* synchronizing.
C5_SyncUnlessKvOnly ==
    (host.pc = "idle" /\ host.ncalls > 0) =>
       IF BitAnd1(host.call.flags) = 0
       THEN host.ret = "logits" /\ host.syncs = 1 /\ ~host.pending /\ Quiet
       ELSE host.ret = "null" /\ host.syncs = 0

\* a call returned logits after a prefill call
C5_Witness ==
    /\ host.pc = "idle"
    /\ host.ret = "logits"
    /\ host.syncs = 1
    /\ host.ncalls > 1
    /\ caller.prefill

\* C6: a kernel that can run reads the KV cache or x only when no launch before it in
\* program order that writes them is still enqueued; and in the cooperative kernel a block
\* has run a phase that reads them only when every block has run every earlier phase that
\* writes them.
C6_WriteBeforeRead ==
    /\ \A q \in {stream, parstream} :
          (Runnable(q) /\ IsKernel(Head(q))) =>
             \A w \in PendingOps :
                Before(w, Head(q)) => Writes(w) \cap Reads(Head(q)) \cap Tracked = {}
    /\ \A b \in Blocks, r \in 0 .. (NPhases - 1) :
          bpc[b] > r =>
             \A w \in 0 .. (r - 1) :
                PhaseWrites(w) \cap PhaseReads(r) \cap Tracked # {} =>
                   \A b2 \in Blocks : bpc[b2] > w

\* one block has scored against the keys of the first layer, the other is about to
C6_Witness ==
    /\ stream # << >>
    /\ Head(stream).k = "fused_coop"
    /\ \E b, b2 \in Blocks : bpc[b] = 3 /\ bpc[b2] = 2

C8_FallsBack ==
    (host.ncalls > 0 \/ host.pc = "aborted") =>
       /\ host.pc # "aborted"
       /\ host.driver = IF coop # 0 /\ config.arch \in CoopArchs THEN "forwardcoop" ELSE "forward"

\* C8: without coop a call runs forward; with coop it runs forwardcoop, which goes on for
\* LlamaLike, Mixtral and Gemma and for any other architecture aborts with nothing
\* launched and nothing returned.
C8_CoopOrAbort ==
    (host.ncalls > 0 \/ host.pc = "aborted") =>
       IF coop = 0 THEN host.driver = "forward" /\ host.pc # "aborted"
       ELSE IF config.arch \in CoopArchs THEN host.driver = "forwardcoop" /\ host.pc # "aborted"
       ELSE /\ host.driver = "forwardcoop"
            /\ host.pc = "aborted"
            /\ host.ncalls = 0
            /\ host.launched = 0
            /\ host.ret = "none"
            /\ s = InitState(config.arch)
            /\ stream = << >>

\* forwardcoop aborted for Qwen
C8_Witness == coop # 0 /\ config.arch = "Qwen" /\ host.pc = "aborted" /\ host.driver = "forwardcoop"

\* the element types of a tag
WeightType(db) ==
    CASE db = 4 -> "uint32_t" [] db = 8 -> "__nv_fp8_e5m2" [] db = 16 -> "__half" [] OTHER -> ""

KvType(kvb) == CASE kvb = 8 -> "__nv_fp8_e5m2" [] kvb = 16 -> "__half" [] OTHER -> ""

\* C9: with dbits in {4, 8, 16} and kvbits in {8, 16} a call runs the instantiation whose
\* weight type and KV type are those of the tags; with any other tags nothing is ever
\* launched and the RunState stays as prepare_cuda left it.
C9_Dispatch ==
    /\ host.ncalls > 0 =>
          /\ dbits \in {4, 8, 16}
          /\ kvbits \in {8, 16}
          /\ host.inst = <<WeightType(dbits), KvType(kvbits)>>
    /\ (dbits \notin {4, 8, 16} \/ kvbits \notin {8, 16}) =>
          /\ host.ncalls = 0
          /\ host.launched = 0
          /\ host.ret = "none"
          /\ s = InitState(config.arch)
          /\ stream = << >>
          /\ parstream = << >>

\* a model with 8-bit weights and a 16-bit cache ran a call
C9_Witness ==
    /\ host.ncalls > 0
    /\ dbits = 8
    /\ kvbits = 16
    /\ host.inst = <<"__nv_fp8_e5m2", "__half">>
    /\ host.ret = "logits"

\* C10: a call with token >= vocab_size or pos < 0 launches nothing, and nothing is ever
\* written outside the cache.
C10_BadArgsLaunchNothing ==
    /\ host.launched > 0 => (host.call.pos >= 0 /\ host.call.token < vocab_size)
    /\ ~s.oob

\* C11: prepare_cuda or a forward call that has returned to the caller has had none of its
\* device operations fail: a failure ends the process before the call returns.
C11_FailureIsFatal == host.pc = "idle" => ~host.lasterr

\* C12: after prepare_cuda and the first forward call, a configuration with more than 128
\* layers or more than 64 experts has been rejected by a check, and every other one has
\* been accepted, with a gate that considers all its experts.
C12_LimitsEnforced ==
    (unit.k = "limits" /\ unit.step \in {"called", "dead"}) =>
       IF unit.n_layers > MAX_LAYERS \/ unit.n_experts > MAX_EXPERTS
       THEN unit.res = "rejected"
       ELSE unit.res = "accepted" /\ unit.gate = unit.n_experts

RECURSIVE SeqSum(_)
SeqSum(q) == IF q = << >> THEN 0 ELSE Head(q) + SeqSum(Tail(q))

GateDone == unit.k = "gate" /\ unit.step = "out"

\* the top 24 bits of the softmax weight of expert e (0-based)
Top24(e) == GateExp(unit.weights, unit.experts, e) \div 256

\* C13: for E <= 32 experts and 1 <= Ea <= E the gate writes Ea pairwise distinct expert
\* indices, each the index of one of the E experts, and Ea weights that sum to 1, each the
\* softmax weight of the expert in its slot (as far as the top 24 bits of the float carry
\* it) over the sum of the Ea selected weights.
C13_GateDistinctNormalized ==
    GateDone =>
       LET o == unit.out
           A == 1 .. unit.active
       IN /\ \A j, k \in A : j # k => o.moe_experts[j] # o.moe_experts[k]
          /\ \A k \in A : o.moe_experts[k] < unit.experts
          /\ \A k \in A : o.moe_weights[k].num \div 256 = Top24(o.moe_experts[k])
          /\ \A k \in A :
                SeqSum([j \in A |-> o.moe_weights[j].num]) = SeqSum(o.moe_weights[k].sumw)

\* the Ea experts whose logits are strictly larger than all the others, if there are such
TopSets ==
    {S \in SUBSET (1 .. unit.experts) :
        /\ Cardinality(S) = unit.active
        /\ \A a \in S, b \in (1 .. unit.experts) \ S : unit.weights[a] > unit.weights[b]}

\* the slots hold exactly the experts of S, by falling logit
GatePicks(S) ==
    LET o == unit.out
    IN /\ {o.moe_experts[k] + 1 : k \in 1 .. unit.active} = S
       /\ \A k \in 1 .. (unit.active - 1) :
             unit.weights[o.moe_experts[k] + 1] >= unit.weights[o.moe_experts[k + 1] + 1]

Told(S) ==
    \A a \in S :
       /\ Top24(a - 1) > 0
       /\ \A b \in 1 .. unit.experts :
             unit.weights[a] # unit.weights[b] => Top24(a - 1) # Top24(b - 1)

RECURSIVE FnSum(_, _, _)
\* f[lo] + ... + f[lo + n - 1]
FnSum(f, lo, n) ==
    IF n = 0 THEN 0
    ELSE IF n = 1 THEN f[lo]
    ELSE FnSum(f, lo, n \div 2) + FnSum(f, lo + n \div 2, n - n \div 2)

\* C15: for every kv_len in [1, Smax] the attention mix returns the sum of att[t] * v(t)
\* over the sum of att[t], each sum taking every t in [0, kv_len) exactly once and no
\* other t, and the sum of the weights is not 0, so the effective weights sum to 1.
C15_MixIsWeightedAverage ==
    (unit.k = "mix" /\ unit.step = "out") =>
       /\ unit.out.res = FnSum([t \in 0 .. (unit.kv_len - 1) |-> unit.att[t] * unit.val[t]],
                               0, unit.kv_len)
       /\ unit.out.sum = FnSum(unit.att, 0, unit.kv_len)
       /\ unit.out.sum > 0

\* a window with a second round of the loop for lane 0, and a tail of 3
C15_Witness ==
    /\ unit.k = "mix" /\ unit.step = "out"
    /\ unit.kv_len = 4 * warpSize + 7
    /\ unit.out.sum = FnSum(unit.att, 0, unit.kv_len)

\* the next call of the caller, with these flags
NextCall(flags) == Call(host.ncalls % vocab_size, host.ncalls, flags, host.ncalls)

\* C16: for LlamaLike, Mixtral and Gemma, from the same state (caches included) and with
\* the same token, pos and flags, the
\* multi-kernel driver and the cooperative driver leave the same key cache and value cache,
\* and without FF_UPDATE_KV_ONLY the same logits.
C16_DriversAgree ==
    (Quiet /\ host.pc = "idle" /\ coop # 0 /\ config.arch \in CoopArchs
        /\ host.ncalls < MaxCalls) =>
       \A flags \in {0, FF_UPDATE_KV_ONLY} :
          LET m == RunSeq(s, forward_ops(NextCall(flags)))
              c == RunSeq(s, forwardcoop_ops(NextCall(flags)))
          IN /\ m.key_cache = c.key_cache
             /\ m.value_cache = c.value_cache
             /\ flags = 0 => m.logits = c.logits

\* C17: two runs from the same inputs end with the same x, whatever the order of the
\* atomic additions.
C17_RunsAgree ==
    (unit.k = "atomic" /\ unit.run[1].todo = {} /\ unit.run[2].todo = {}) =>
       unit.run[1].x = unit.run[2].x

\* the main stream runs a layernorm of Phi in this step
PhiNormStep ==
    /\ config.arch = "Phi"
    /\ stream # << >>
    /\ Head(stream).k = "layernorm"
    /\ stream' = Tail(stream)

\* the MLP output of layer l on the xb of st: b2 + w2 gelu(w1 xb + b1)
MlpOf(st, l) ==
    kernel_matmul_ffn2(kernel_matmul_ffn1_gelu(st, [l |-> l]), [l |-> l, o |-> "xa"]).xa

\* the input of layer l, plus its attention output, plus its MLP output
PhiLayerOut(st, l) == PAdd(PAdd(st.lnin, PMul(st.q, Wt("wo", l, 0))), MlpOf(st, l))

PhiNormBody ==
    LET op == Head(stream)
        l  == op.l
        w  == Wt(op.w, l, 0)
    IN IF l = 0
       THEN /\ s'.x = s.x
            /\ s'.xb = LayerNorm(s.x, w)
       ELSE IF l < n_layers
       THEN /\ s'.x = PhiLayerOut(s, l - 1)
            /\ s'.xb = LayerNorm(PhiLayerOut(s, l - 1), w)
       ELSE s'.x = LayerNorm(PhiLayerOut(s, l - 1), w)

\* C18: for Phi the vector the LayerNorm at the start of layer l + 1, and the final
\* LayerNorm, normalizes is the input of layer l plus the attention output of layer l plus the
\* MLP output xa of layer l; the LayerNorm of layer 0 normalizes x alone and leaves it as it
\* is, whatever xa holds from an earlier call.
C18_PhiAccumulator == [][PhiNormStep => PhiNormBody]_vars

\* the second call has run the LayerNorm of layer 1, with the xa of its layer 0, after
\* its layer 0 LayerNorm found the xa of the first call in RunState
C18_Witness ==
    /\ config.arch = "Phi"
    /\ host.ncalls = 2
    /\ stream # << >>
    /\ Head(stream).k = "rope_qkv" /\ Head(stream).l = 1 /\ Head(stream).c.n = 1
    /\ s.x = s.lnin
    /\ s.x # Poison /\ s.xa # Poison

\* the device has finished the call at position p, the last of the calls at 0, 1, ..., p
After(p) == Quiet /\ host.pc = "idle" /\ caller.seq /\ host.ncalls = p + 1

SeqPos == 0 .. (MaxCalls - 1)

\* C19: when pos goes up by 1 per call from 0, after every call at a position p >= Smax the
\* keys at physical positions 0 and 1 are those of positions 0 and 1 turned to the rotary
\* phase of positions p - Smax + 1 and p - Smax + 2, and the oldest key outside the sinks
\* is that of position p - Smax + 3 at its own phase.
C19_SinkPhase ==
    \A p \in SeqPos :
       (After(p) /\ p >= seq_len) =>
          \A l \in Layers, e \in KvIdx :
             /\ \A t \in SinkSlots :
                   /\ KeyCell(s, l, t, e).w
                   /\ KeyCell(s, l, t, e).src = t
                   /\ KeyCell(s, l, t, e).ang = (p - seq_len + 1 + t) * PairFreq(e)
             /\ \E t \in Slots \ SinkSlots :
                   /\ KeyCell(s, l, t, e).src = p - seq_len + 3
                   /\ KeyCell(s, l, t, e).ang = (p - seq_len + 3) * PairFreq(e)
             /\ \A t \in Slots \ SinkSlots : KeyCell(s, l, t, e).src >= p - seq_len + 3

\* after the call at seq_len + 1 the sinks are at the phases of positions 2 and 3, and
\* position 4 is the oldest outside the sinks
C19_Witness ==
    /\ After(seq_len + 1)
    /\ \A l \in Layers : KeyCell(s, l, 0, 0).ang = 2 /\ KeyCell(s, l, 1, 0).ang = 3
    /\ \A l \in Layers : KeyCell(s, l, 2, 0).src = 4 /\ KeyCell(s, l, 2, 0).ang = 4

\* kv_len = min(p + 1, Smax)
MinLen(p) == IF p + 1 < seq_len THEN p + 1 ELSE seq_len

\* the positions the cache holds after the call at p
Held(p) == IF p < seq_len THEN 0 .. p ELSE {0, 1} \cup ((p - seq_len + 3) .. p)

\* the cache with the slots T of every layer as cudaMalloc left them
Scrub(st, T) ==
    [st EXCEPT
       !.key_cache = [o \in CacheIdx |->
                        IF \E l \in Layers, tt \in T, j \in EvenJ, c \in {0, 1} :
                              KeyWriteIdx(l, tt, j, c) = o
                        THEN UninitEl ELSE @[o]],
       !.value_cache = [o \in CacheIdx |->
                          IF \E l \in Layers, tt \in T, j \in EvenJ, c \in {0, 1} :
                                ValWriteIdx(l, tt, j, c) = o
                          THEN UninitEl ELSE @[o]]]

\* the kernels the driver in use enqueues for the call
DriverOps(c) == IF Driver = "forwardcoop" THEN forwardcoop_ops(c) ELSE forward_ops(c)

\* C20: when pos goes up by 1 per call from 0, after the call at p the slots [0, kv_len)
\* of every layer, kv_len = min(p + 1, Smax), are all written and hold exactly the positions
\* 0 .. p, or 0, 1 and p - Smax + 3 .. p once p >= Smax; and the logits of the call at p do
\* not change when the slots from kv_len on are emptied before it, are defined, and are
\* undefined when any slot below kv_len that the call does not write itself is emptied.
C20_WindowHeld ==
    \A p \in SeqPos :
       /\ After(p) =>
             \A l \in Layers :
                /\ \A t \in 0 .. (MinLen(p) - 1), e \in KvIdx :
                      /\ KeyCell(s, l, t, e).w /\ ValCell(s, l, t, e).w
                      /\ KeyCell(s, l, t, e).src = KeyCell(s, l, t, 0).src
                      /\ ValCell(s, l, t, e).src = KeyCell(s, l, t, 0).src
                /\ {KeyCell(s, l, t, 0).src : t \in 0 .. (MinLen(p) - 1)} = Held(p)
       /\ (p = 0 \/ After(p - 1)) /\ Quiet /\ host.pc = "idle" /\ host.ncalls = p =>
             LET ops == DriverOps(NextCall(0))
                 out == RunSeq(s, ops).logits
             IN /\ out >= 0
                /\ RunSeq(Scrub(s, MinLen(p) .. (seq_len - 1)), ops).logits = out
                /\ \A t \in 0 .. (MinLen(p) - 1) :
                      t # ExpKvPos(p) => RunSeq(Scrub(s, {t}), ops).logits = Poison

\* the call at seq_len + 1 returned logits: the cache holds 0, 1, 4 and 5
C20_Witness ==
    /\ After(seq_len + 1)
    /\ host.ret = "logits"
    /\ s.logits >= 0
    /\ \A l \in Layers : KeyCell(s, l, 2, 0).src = 4 /\ ValCell(s, l, 3, 0).src = 5

\* the cooperative kernel is at the head of the stream
CoopRunning == stream # << >> /\ Head(stream).k = "fused_coop"

\* in every phase, for any number of experts, the threads of a block come to the same
\* block-level barriers
BlockBarriersUniform ==
    \A p \in 0 .. (PhasesPerLayer - 1), b \in 0 .. (MaxSMs - 1), e \in 0 .. NExperts :
       \A th \in BlockThreads :
          AtBlockBarrier(PhaseName(p), b, th, e) = AtBlockBarrier(PhaseName(p), b, 0, e)

\* no block is more than one barrier ahead of another, some block can go on, and no
\* block-level barrier is met by a part of a block only
BarrierInv ==
    CoopRunning =>
       /\ \A b, b2 \in Blocks : bpc[b] - bpc[b2] <= 1
       /\ \A b \in Blocks : bpc[b] <= NPhases
       /\ \E b \in Blocks : bpc[b] < NPhases /\ syncgrid(b)
       /\ BlockBarriersUniform

\* a step taken while the kernel runs leaves the barrier counts alone, or is one block
\* passing one more barrier, or is the last block passing its last barrier, with which
\* the kernel ends, every block having passed NPhases barriers
CoopProgress ==
    CoopRunning =>
       \/ bpc' = bpc /\ stream' # << >> /\ Head(stream') = Head(stream)
       \/ \E b \in Blocks :
             /\ bpc[b] < NPhases
             /\ bpc' = [bpc EXCEPT ![b] = @ + 1]
             /\ stream' = stream
       \/ /\ \E b \in Blocks :
                bpc[b] = NPhases - 1 /\ \A b2 \in Blocks \ {b} : bpc[b2] = NPhases
          /\ bpc' = [b \in Blocks |-> 0]
          /\ stream' = Tail(stream)

C22_WarpsPartitionRange ==
    (unit.k = "warps" /\ unit.step = "out") =>
       /\ {x[2] : x \in unit.io} = 0 .. (ib(unit.g) - 1)
       /\ Cardinality(unit.io) = ib(unit.g)
       /\ \A j \in 0 .. (unit.n - 1) : Cardinality(unit.by[j]) = 1
       /\ \A j \in unit.n .. (unit.n + 1) : unit.by[j] = {}

\* three blocks, a QKV loop longer than the grid has warps: index 2 ib is taken by the
\* warp with io = 0 in its second round
C22_Witness ==
    /\ unit.k = "warps" /\ unit.step = "out"
    /\ unit.g = MaxGrid /\ unit.m = 2 /\ unit.n = 2 * MaxRange
    /\ unit.by[2 * ib(MaxGrid)] = {<<0, 0>>}
    /\ unit.by[4] = {<<1, 0>>}


\* C23: whenever the softmax phase of a layer of the cooperative kernel is complete, the
\* scores att[h, 0 .. kv_len) of every query head h are exponentiated, whatever the number
\* of thread blocks.
C23_EveryHeadSoftmaxed ==
    [][\A p \in 0 .. (NPhases - 1) :
          (/\ CoopRunning
           /\ PhaseName(p) = "softmax"
           /\ \E b \in Blocks : bpc[b] = p
           /\ \A b \in Blocks : bpc'[b] > p) =>
             s'.att = Softmax(s, Heads, Head(stream).c.kv_len).att]_vars


\* C24: under every interleaving of the threads of block 0 in the FFN-norm phase, the
\* rmsscale a gate warp has multiplied its logit by is the scale of the post-attention
\* norm.
C24_WarpsLoadNewScale ==
    unit.k = "race" =>
       \A j \in 0 .. (unit.n_experts - 1) : unit.got[j] # 0 => unit.got[j] = unit.scale

\* C25 as stated: the score step writes only cells att[h, t] with t below kv_len and reads
\* only key positions below kv_len, and no cell is written by two threads.
C25_ScoreWithinKvLen ==
    (unit.k = "score" /\ unit.step = "out") =>
       /\ \A w \in unit.wr : w[2] \in Heads /\ w[3] >= 0 /\ w[3] < unit.kv_len
       /\ \A r \in unit.rd : r[1] \in 0 .. (n_kv_heads - 1) /\ r[2] >= 0 /\ r[2] < unit.kv_len
       /\ Cardinality({<<w[2], w[3]>> : w \in unit.wr}) = Cardinality(unit.wr)

\* kv_len rounded up to even
Even(n) == n + (n % 2)

\* C25: the score step writes exactly the cells att[h, t] with t below kv_len rounded up
\* to even, each by one thread, all in the head's own row (t below seq_len), and reads only
\* key positions of the same range of the head's key head.
C25_ScoreWithinPairs ==
    (unit.k = "score" /\ unit.step = "out") =>
       /\ \A w \in unit.wr :
             w[2] \in Heads /\ w[3] >= 0 /\ w[3] < Even(unit.kv_len) /\ w[3] < unit.seq_len
       /\ \A r \in unit.rd :
             /\ r[1] \in 0 .. (n_kv_heads - 1)
             /\ r[2] >= 0 /\ r[2] < Even(unit.kv_len) /\ r[2] < unit.seq_len
       /\ Cardinality({<<w[2], w[3]>> : w \in unit.wr}) = Cardinality(unit.wr)
       /\ Cardinality(unit.wr) = n_heads * Even(unit.kv_len)

\* the cooperative kernel has scored an odd window that takes three warp rounds: the cell
\* and the key at position kv_len are touched
C25_Witness ==
    /\ unit.k = "score" /\ unit.step = "out" /\ unit.drv = "coop"
    /\ unit.kv_len = 4 * ScoreQuads - 1
    /\ \E w \in unit.wr : w[3] = unit.kv_len
    /\ \E r \in unit.rd : r[2] = unit.kv_len

\* C26: every expert index the gate writes is one of 0 .. E - 1, the experts the FFN
\* kernels have weights for, whatever the logits.
C26_ExpertsInRange ==
    GateDone =>
       \A k \in 1 .. unit.active :
          unit.out.moe_experts[k] >= 0 /\ unit.out.moe_experts[k] <= unit.experts - 1

\* the same in a whole run: whenever the FFN-norm phase of a layer of the cooperative
\* kernel is complete, the gate logits in exp are those of xb scaled by the scale of that
\* layer's post-attention norm, the value rmsscale has once the phase is over.
GateScaleFresh ==
    [][\A p \in 0 .. (NPhases - 1) :
          (/\ CoopRunning
           /\ config.arch = "Mixtral"
           /\ PhaseName(p) = "ffnnorm"
           /\ \E b \in Blocks : bpc[b] = p
           /\ \A b \in Blocks : bpc'[b] > p) =>
             s'.exp = MoeGate(PMul(PMul(s'.xb, s'.rmsscale),
                                   Wt("moegate", PhaseLayer(p), 0)))]_vars

====
